---- MODULE Spec2Model ----
(***************************************************************************)
(* Session and token lifecycle of the authentication service:            *)
(* services/sessionService.js, services/passwordResetService.js and       *)
(* utils/rateLimiter.js.                                                   *)
(*                                                                         *)
(* Time is a discrete clock `now`.  In the session / password-reset        *)
(* specifications one tick is one hour; in the rate-limiter specification  *)
(* one tick is 7.5 minutes (window 15 min = 2 ticks, lockout 30 min = 4).  *)
(* Random tokens (crypto.randomBytes) are drawn from a counter, so that a  *)
(* generated token never repeats.  Token values are integers: generated    *)
(* plaintext tokens are 1..HashShift-1 and SHA-256 is the injective map    *)
(* x |-> x + HashShift, which has no fixed point and whose image of the    *)
(* plaintext tokens is disjoint from them (a 64-hex digest is never a      *)
(* 128-hex or 64-hex random token in practice).                            *)
(***************************************************************************)
EXTENDS Integers, Sequences, FiniteSets, TLC

\* ---------------------------------------------------------------- bounds
MaxTime == 3
MaxTokens == 2
MaxCapTokens == 3
MaxResetTokens == 3
MaxResetTime == 2
MaxConcTokens == 2
MaxConcTime == 2
MaxRLTime == 5
MaxCount == 6
MaxLoginFailures == 5
MaxLoginTokens == 1
MaxRegTokens == 3
MaxRegTime == 3
MaxRegConcTokens == 3
MaxRegConcTime == 2
MaxAuthTokens == 1
MaxAuthTime == 3
MaxDelTokens == 2
MaxDelTime == 1
MaxPairFailures == 5
MaxCapConcTokens == 4
MaxCapConcTime == 1
MaxLoginConcTokens == 1
MaxLoginConcTime == 1
MaxCreateTokens == 3
MaxCreateTime == 2

\* ------------------------------------------------------ program constants
HashShift == 100
expiresInMs == 2
maxConcurrentSessions == 2
tokenExpirationHours == 1
maxAttempts == 5
windowMs == 2
lockoutDurationMs == 4
MIN_PASSWORD_LENGTH == 8
verificationTokenExpiry == 2

\* the login runs last one tick past a lockout started at time 0
MaxLoginTime == lockoutDurationMs + 1

UserIds == {"u1", "u2"}
NoUser == "none"
NoSid == 0
NoToken == 0

\* consumed and attemptLog are history variables: the reset tokens a
\* successful resetPassword has used up, and per rate-limiter key the
\* failed attempts recorded since the key was last cleared.
VARIABLES now, sessions, nextSid, nextTok, users, resetTokens, nextRid,
          consumed, procs, loginAttempts, attemptLog, verificationTokens

vars == <<now, sessions, nextSid, nextTok, users, resetTokens, nextRid,
          consumed, procs, loginAttempts, attemptLog, verificationTokens>>

sessionVars == <<sessions, nextSid>>
resetVars == <<users, resetTokens, nextRid, consumed>>
rlVars == <<loginAttempts, attemptLog>>

\* ------------------------------------------------------------ token codec
hashToken(token) == token + HashShift

\* ------------------------------------------------------------ session store
\* (mutation) expiry compared with >= instead of >
ActiveWhere_Inclusive(s) == s.expires_at >= now /\ ~s.is_revoked

\* WHERE expires_at > NOW() AND (is_revoked = FALSE OR is_revoked IS NULL)
\* (mutation) the revoked flag is not tested
ActiveWhere_IgnoresRevoked(s) == s.expires_at > now

ActiveWhere(s) == s.expires_at > now /\ ~s.is_revoked

\* BEFORE UPDATE trigger on sessions: NEW.last_activity_at = NOW()
update_session_last_activity(s) == [s EXCEPT !.last_activity_at = now]

\* SELECT ... WHERE s.token = $1 AND <active>
SelectActiveByToken(col) == {s \in sessions : s.token = col /\ ActiveWhere(s)}

getActiveSessionCount(userId) ==
  Cardinality({s \in sessions : s.user_id = userId /\ ActiveWhere(s)})

\* (mutation) ORDER BY last_activity_at ASC: least recently used
OldestActive_ByActivity(userId) ==
  LET act == {s \in sessions : s.user_id = userId /\ ActiveWhere(s)}
  IN {s \in act : \A o \in act : s.last_activity_at <= o.last_activity_at}

\* ORDER BY created_at ASC LIMIT 1 : any active row with minimal created_at
OldestActive(userId) ==
  LET act == {s \in sessions : s.user_id = userId /\ ActiveWhere(s)}
  IN {s \in act : \A o \in act : s.created_at <= o.created_at}

revokeOldestSession(victim) ==
  {IF s.id = victim.id
      THEN update_session_last_activity([s EXCEPT !.is_revoked = TRUE])
      ELSE s : s \in sessions}

\* metadata = {}: ip || null, userAgent || null
Null == "null"

NewSession(userId, tokenHash) ==
  [id |-> nextSid, user_id |-> userId, token |-> tokenHash,
   expires_at |-> now + expiresInMs, created_at |-> now,
   last_activity_at |-> now, is_revoked |-> FALSE,
   ip_address |-> Null, user_agent |-> Null]

\* The store statements of createSimpleSession: evict at the cap, insert.
InsertSession(userId) ==
  /\ LET tokenHash == hashToken(nextTok)
         evict == maxConcurrentSessions > 0
                  /\ getActiveSessionCount(userId) >= maxConcurrentSessions
     IN \/ /\ evict
           /\ \E victim \in OldestActive(userId) :
                sessions' = revokeOldestSession(victim)
                              \cup {NewSession(userId, tokenHash)}
        \/ /\ ~evict
           /\ sessions' = sessions \cup {NewSession(userId, tokenHash)}
  /\ nextSid' = nextSid + 1
  /\ nextTok' = nextTok + 1

\* SESSION_CONFIG.refreshTokenExpiryMs, in clock ticks
refreshTokenExpiryMs == 2

\* JSON.stringify({ access, refresh }) of two hashes: a string that names
\* both and is neither a token nor a hash.
JsonBase == 1000
JsonStringify(access, refresh) == JsonBase + access * JsonBase + refresh

\* The value createSession returns: two fresh tokens, opaque or JWT.
createSessionResult ==
  [accessToken |-> nextTok, refreshToken |-> nextTok + 1,
   expiresAt |-> now + refreshTokenExpiryMs]

\* createSession: evict at the cap, INSERT the row under the access token's
\* hash, then UPDATE its token column to the JSON of both hashes.
createSession(userId) ==
  /\ LET accessTokenHash == hashToken(createSessionResult.accessToken)
         refreshTokenHash == hashToken(createSessionResult.refreshToken)
         inserted == [NewSession(userId, accessTokenHash) EXCEPT
                        !.expires_at = createSessionResult.expiresAt]
         updated == update_session_last_activity(
                      [inserted EXCEPT
                         !.token = JsonStringify(accessTokenHash,
                                                 refreshTokenHash)])
         evict == maxConcurrentSessions > 0
                  /\ getActiveSessionCount(userId) >= maxConcurrentSessions
     IN \/ /\ evict
           /\ \E victim \in OldestActive(userId) :
                sessions' = revokeOldestSession(victim) \cup {updated}
        \/ /\ ~evict
           /\ sessions' = sessions \cup {updated}
  /\ nextSid' = nextSid + 1
  /\ nextTok' = nextTok + 2
  /\ UNCHANGED <<now, verificationTokens, resetVars, procs, rlVars>>

\* Returns {token: nextTok, expiresAt: now + expiresInMs}.
createSimpleSession(userId) ==
  /\ InsertSession(userId)
  /\ UNCHANGED <<now, verificationTokens, resetVars, procs, rlVars>>

\* FROM sessions s JOIN users u ON s.user_id = u.id
JoinUsers(rows) == {s \in rows : s.user_id \in DOMAIN users}

\* The rows validateSession finds: hashed lookup first, then the legacy
\* (unhashed) lookup.  The token column is UNIQUE, so at most one row.
ValidateRows(token) ==
  IF JoinUsers(SelectActiveByToken(hashToken(token))) # {}
    THEN JoinUsers(SelectActiveByToken(hashToken(token)))
    ELSE JoinUsers(SelectActiveByToken(token))

\* The value validateSession returns.
validateSessionResult(token) ==
  IF ValidateRows(token) = {}
    THEN [valid |-> FALSE, sessionId |-> NoSid, userId |-> NoUser,
          expiresAt |-> 0]
    ELSE LET session == CHOOSE s \in ValidateRows(token) : TRUE
         IN [valid |-> TRUE, sessionId |-> session.id,
             userId |-> session.user_id, expiresAt |-> session.expires_at]

updateLastActivity(sessionId) ==
  {IF s.id = sessionId THEN update_session_last_activity(s) ELSE s
     : s \in sessions}

validateSession(token) ==
  /\ IF validateSessionResult(token).valid
       THEN sessions' = updateLastActivity(validateSessionResult(token).sessionId)
       ELSE UNCHANGED sessions
  /\ UNCHANGED <<now, verificationTokens, nextSid, nextTok, resetVars, procs, rlVars>>

\* The column value the UPDATE of refresh/rotate finally matches: the hash,
\* else (fallback) the raw token, else nothing.
\* (mutation) a row counts as matched whatever its expiry and revoked flag
MatchedColumn_AnyRow(token) ==
  IF {s \in sessions : s.token = hashToken(token)} # {} THEN hashToken(token)
  ELSE IF {s \in sessions : s.token = token} # {} THEN token
  ELSE NoToken

MatchedColumn(token) ==
  IF SelectActiveByToken(hashToken(token)) # {} THEN hashToken(token)
  ELSE IF SelectActiveByToken(token) # {} THEN token
  ELSE NoToken

\* Variant: the UPDATE has no token condition.
RefreshWhere_Every(col) ==
  {IF ActiveWhere(s)
      THEN update_session_last_activity([s EXCEPT !.expires_at = now + expiresInMs])
      ELSE s : s \in sessions}

\* UPDATE sessions SET expires_at = $1, last_activity_at = NOW()
\* WHERE token = $col AND <active>
RefreshWhere(col) ==
  {IF s.token = col /\ ActiveWhere(s)
      THEN update_session_last_activity([s EXCEPT !.expires_at = now + expiresInMs])
      ELSE s : s \in sessions}

\* The value refreshSession returns.
refreshSessionResult(token) ==
  IF MatchedColumn(token) = NoToken
    THEN [success |-> FALSE, error |-> "invalid_session", expiresAt |-> 0]
    ELSE [success |-> TRUE, error |-> "", expiresAt |-> now + expiresInMs]

refreshSession(token) ==
  /\ IF refreshSessionResult(token).success
       THEN sessions' = RefreshWhere(MatchedColumn(token))
       ELSE UNCHANGED sessions
  /\ UNCHANGED <<now, verificationTokens, nextSid, nextTok, resetVars, procs, rlVars>>

\* (mutation) the old token hash stays in place, only the expiry moves
RotateWhere_KeepsToken(col, newTokenHash) ==
  {IF s.token = col /\ ActiveWhere(s)
      THEN update_session_last_activity([s EXCEPT !.expires_at = now + expiresInMs])
      ELSE s : s \in sessions}

\* UPDATE sessions SET token = $1, expires_at = $2, last_activity_at = NOW()
\* WHERE token = $col AND <active>
RotateWhere(col, newTokenHash) ==
  {IF s.token = col /\ ActiveWhere(s)
      THEN update_session_last_activity(
             [s EXCEPT !.token = newTokenHash, !.expires_at = now + expiresInMs])
      ELSE s : s \in sessions}

\* The value rotateSessionToken returns; the new token is the next one the
\* random generator yields.
rotateSessionTokenResult(oldToken) ==
  IF MatchedColumn(oldToken) = NoToken
    THEN [success |-> FALSE, error |-> "invalid_session", token |-> NoToken,
          expiresAt |-> 0]
    ELSE [success |-> TRUE, error |-> "", token |-> nextTok,
          expiresAt |-> now + expiresInMs]

\* The generated token is drawn from the counter only when it is stored: a
\* random token that is discarded on failure is never seen by anyone.
rotateSessionToken(oldToken) ==
  /\ IF rotateSessionTokenResult(oldToken).success
       THEN /\ sessions' = RotateWhere(MatchedColumn(oldToken), hashToken(nextTok))
            /\ nextTok' = nextTok + 1
       ELSE UNCHANGED <<sessions, nextTok>>
  /\ UNCHANGED <<now, verificationTokens, nextSid, resetVars, procs, rlVars>>

\* Variant: the UPDATE has no user_id condition.
RevokeHit_AnyOwner(sessionId, userId) ==
  {s \in sessions : s.id = sessionId /\ ~s.is_revoked}

\* UPDATE ... WHERE id = $1 AND user_id = $2 AND <not revoked> RETURNING id
RevokeHit(sessionId, userId) ==
  {s \in sessions : s.id = sessionId /\ s.user_id = userId /\ ~s.is_revoked}

revokeSessionResult(sessionId, userId) ==
  [success |-> RevokeHit(sessionId, userId) # {}]

revokeSession(sessionId, userId) ==
  /\ sessions' = {IF s \in RevokeHit(sessionId, userId)
                    THEN update_session_last_activity(
                           [s EXCEPT !.is_revoked = TRUE])
                    ELSE s : s \in sessions}
  /\ UNCHANGED <<now, verificationTokens, nextSid, nextTok, resetVars, procs, rlVars>>

\* The column the UPDATE of revokeSessionByToken matches: hash, else raw.
RevokeColumn(token) ==
  IF \E s \in sessions : s.token = hashToken(token)
    THEN hashToken(token) ELSE token

revokeSessionByTokenResult(token) ==
  [success |-> \E s \in sessions : s.token = RevokeColumn(token)]

\* UPDATE sessions SET is_revoked = TRUE WHERE token = $col
revokeSessionByToken(token) ==
  /\ sessions' = {IF s.token = RevokeColumn(token)
                    THEN update_session_last_activity(
                           [s EXCEPT !.is_revoked = TRUE])
                    ELSE s : s \in sessions}
  /\ UNCHANGED <<now, verificationTokens, nextSid, nextTok, resetVars, procs, rlVars>>

\* Variant: the UPDATE has no id != $2 condition.
RevokeAllHit_IgnoresExcept(userId, exceptSessionId) ==
  {s \in sessions : s.user_id = userId /\ ~s.is_revoked}

RevokeAllHit(userId, exceptSessionId) ==
  {s \in sessions : /\ s.user_id = userId
                    /\ ~s.is_revoked
                    /\ (exceptSessionId # NoSid => s.id # exceptSessionId)}

revokeAllSessionsResult(userId, exceptSessionId) ==
  [success |-> TRUE, count |-> Cardinality(RevokeAllHit(userId, exceptSessionId))]

revokeAllSessions(userId, exceptSessionId) ==
  /\ sessions' = {IF s \in RevokeAllHit(userId, exceptSessionId)
                    THEN update_session_last_activity(
                           [s EXCEPT !.is_revoked = TRUE])
                    ELSE s : s \in sessions}
  /\ UNCHANGED <<now, verificationTokens, nextSid, nextTok, resetVars, procs, rlVars>>

\* Variant: idle rows are deleted as well.
CleanupWhere_Idle(s) ==
  s.expires_at < now \/ s.is_revoked \/ s.last_activity_at < now

\* DELETE FROM sessions WHERE expires_at < NOW() OR is_revoked = TRUE
CleanupWhere(s) == s.expires_at < now \/ s.is_revoked

cleanupExpiredSessions ==
  /\ sessions' = {s \in sessions : ~CleanupWhere(s)}
  /\ UNCHANGED <<now, verificationTokens, nextSid, nextTok, resetVars, procs, rlVars>>

\* Variant: the user_id condition is missing.
ListedWhere_AnyUser(s, userId) == ActiveWhere(s)

\* WHERE user_id = $1 AND expires_at > NOW()
\*   AND (is_revoked = FALSE OR is_revoked IS NULL)
ListedWhere(s, userId) == s.user_id = userId /\ ActiveWhere(s)

\* result.rows.map(session => ({ id, ip, userAgent, ... }))
SessionSummary(session) ==
  [id |-> session.id, ip |-> session.ip_address,
   userAgent |-> session.user_agent, lastActivity |-> session.last_activity_at,
   createdAt |-> session.created_at, expiresAt |-> session.expires_at]

\* ORDER BY last_activity_at DESC: the arrangements of the rows in which
\* last_activity_at never increases; rows with equal last_activity_at come
\* in either order.
OrderByLastActivityDesc(rows) ==
  {q \in [1..Cardinality(rows) -> rows] :
     /\ \A i, j \in DOMAIN q : i # j => q[i] # q[j]
     /\ \A i, j \in DOMAIN q :
          i < j => q[i].last_activity_at >= q[j].last_activity_at}

\* The lists getActiveSessions may return.
getActiveSessionsResults(userId) ==
  {[i \in DOMAIN q |-> SessionSummary(q[i])] :
     q \in OrderByLastActivityDesc({s \in sessions : ListedWhere(s, userId)})}

\* ------------------------------------------------------------------ clock
Tick ==
  /\ now' = now + 1
  /\ UNCHANGED <<verificationTokens, sessionVars, nextTok, resetVars, procs,
                 rlVars>>

\* ------------------------------------------------------- password reset
EmailInputs == {"alice@example.com", " Alice@Example.com ",
                "bob@example.com", "ghost@example.com"}

\* email.toLowerCase().trim()
NormalizeEmail(email) ==
  CASE email = " Alice@Example.com " -> "alice@example.com"
    [] OTHER -> email

\* SELECT id, email FROM users WHERE email = $1
UsersByEmail(email) == {u \in DOMAIN users : users[u].email = email}

Passwords == {"NewPass1", "Other2Pw", "weak"}

PasswordLength(p) == CASE p = "weak" -> 4 [] OTHER -> 8
HasLower(p) == TRUE
HasUpper(p) == p # "weak"
HasDigit(p) == p # "weak"

validatePassword(password) ==
  IF PasswordLength(password) < MIN_PASSWORD_LENGTH THEN FALSE
  ELSE IF PasswordLength(password) > 128 THEN FALSE
  ELSE IF ~HasLower(password) THEN FALSE
  ELSE IF ~HasUpper(password) THEN FALSE
  ELSE IF ~HasDigit(password) THEN FALSE
  ELSE TRUE

validatePasswordMatch(password, confirmPassword) == password = confirmPassword

\* bcrypt.hash: a one-way image of the password, never the password itself
bcryptHash(password) == <<"bcrypt", password>>

\* Variant: the invalidating UPDATE matches no row.
InvalidateUnused_Noop(rows, userId) == rows

\* UPDATE password_reset_tokens SET used = TRUE WHERE user_id = $1 AND used = FALSE
InvalidateUnused(rows, userId) ==
  {IF r.user_id = userId /\ ~r.used THEN [r EXCEPT !.used = TRUE] ELSE r
     : r \in rows}

\* INSERT INTO password_reset_tokens (user_id, token, expires_at, used)
NewResetRow(userId, hashedToken) ==
  [id |-> nextRid, user_id |-> userId, token |-> hashedToken,
   expires_at |-> now + tokenExpirationHours, used |-> FALSE]

SuccessMessage ==
  "If an account with that email exists, a password reset link has been sent."

\* The value requestPasswordReset returns, or the error it throws.  mailOk:
\* whether the mail transport accepts the message; a transport error is
\* caught by the handler's catch block and rethrown.
requestPasswordResetResult(email, mailOk) ==
  IF UsersByEmail(NormalizeEmail(email)) = {} \/ mailOk
    THEN [success |-> TRUE, message |-> SuccessMessage]
    ELSE [success |-> FALSE,
          message |-> "Failed to process password reset request"]

requestPasswordReset(email, mailOk) ==
  /\ LET found == UsersByEmail(NormalizeEmail(email))
     IN IF found = {}
          THEN UNCHANGED <<resetTokens, nextRid, nextTok>>
          ELSE LET user == CHOOSE u \in found : TRUE
               IN /\ resetTokens' = InvalidateUnused(resetTokens, user)
                                      \cup {NewResetRow(user, hashToken(nextTok))}
                  /\ nextRid' = nextRid + 1
                  /\ nextTok' = nextTok + 1
  /\ UNCHANGED <<now, verificationTokens, sessions, nextSid, users, consumed, procs, rlVars>>

\* Variant: the used flag of the row is not consulted.
ValidateResetIn_IgnoresUsed(rows, token) ==
  IF token = NoToken
    THEN [valid |-> FALSE, error |-> "Token is required", userId |-> NoUser]
  ELSE LET hit == {r \in rows : r.token = hashToken(token)}
       IN IF hit = {}
            THEN [valid |-> FALSE, error |-> "Invalid or expired reset token",
                  userId |-> NoUser]
          ELSE LET tokenRecord == CHOOSE r \in hit : TRUE
               IN IF tokenRecord.expires_at < now
                    THEN [valid |-> FALSE, userId |-> NoUser,
                          error |-> "This reset token has expired"]
                  ELSE [valid |-> TRUE, error |-> "",
                        userId |-> tokenRecord.user_id]

\* validateResetToken against a given table of reset rows
ValidateResetIn(rows, token) ==
  IF token = NoToken
    THEN [valid |-> FALSE, error |-> "Token is required", userId |-> NoUser]
  ELSE LET hit == {r \in rows : r.token = hashToken(token)}
       IN IF hit = {}
            THEN [valid |-> FALSE, error |-> "Invalid or expired reset token",
                  userId |-> NoUser]
          ELSE LET tokenRecord == CHOOSE r \in hit : TRUE
               IN IF tokenRecord.used
                    THEN [valid |-> FALSE, userId |-> NoUser,
                          error |-> "This reset token has already been used"]
                  ELSE IF tokenRecord.expires_at < now
                    THEN [valid |-> FALSE, userId |-> NoUser,
                          error |-> "This reset token has expired"]
                  ELSE [valid |-> TRUE, error |-> "",
                        userId |-> tokenRecord.user_id]

validateResetToken(token) == ValidateResetIn(resetTokens, token)

\* The statements of the reset transaction, in order; a statement named by
\* `fail` raises (store error), which sends control to the catch block.
TxnSteps == <<"update_user", "mark_used", "delete_sessions", "commit">>
FailPoints == {"none", "update_user", "mark_used", "delete_sessions", "commit"}

StepIndex(fail) == CHOOSE i \in 1..Len(TxnSteps) : TxnSteps[i] = fail

\* Whether statement number i has been executed when the transaction stops.
Executed(i, fail) == fail = "none" \/ i < StepIndex(fail)

Db == [users |-> users, resetTokens |-> resetTokens, sessions |-> sessions]

\* Variant: the transaction never issues DELETE FROM sessions.
TxnWork_KeepsSessions(userId, token, newPassword, fail) ==
  [users |-> IF Executed(1, fail)
               THEN [users EXCEPT ![userId].password_hash = bcryptHash(newPassword)]
               ELSE users,
   resetTokens |-> IF Executed(2, fail)
               THEN {IF r.token = hashToken(token) THEN [r EXCEPT !.used = TRUE]
                       ELSE r : r \in resetTokens}
               ELSE resetTokens,
   sessions |-> sessions]

\* The transaction's working state after running up to the failing statement.
TxnWork(userId, token, newPassword, fail) ==
  [users |-> IF Executed(1, fail)
               THEN [users EXCEPT ![userId].password_hash = bcryptHash(newPassword)]
               ELSE users,
   resetTokens |-> IF Executed(2, fail)
               THEN {IF r.token = hashToken(token) THEN [r EXCEPT !.used = TRUE]
                       ELSE r : r \in resetTokens}
               ELSE resetTokens,
   sessions |-> IF Executed(3, fail)
               THEN {s \in sessions : s.user_id # userId}
               ELSE sessions]

\* Variant: the statements run outside a transaction, so ROLLBACK undoes nothing.
Rollback_KeepsWork(pre, work) == work

\* ROLLBACK discards the working state
Rollback(pre, work) == pre

\* The value resetPassword returns; error "server_error" stands for the
\* thrown Error('Failed to reset password').
resetPasswordResult(token, newPassword, confirmPassword, fail) ==
  IF ~validatePasswordMatch(newPassword, confirmPassword)
    THEN [success |-> FALSE, error |-> "validation_error",
          message |-> "Passwords do not match"]
  ELSE IF ~validatePassword(newPassword)
    THEN [success |-> FALSE, error |-> "validation_error",
          message |-> "weak password"]
  ELSE IF ~validateResetToken(token).valid
    THEN [success |-> FALSE, error |-> "invalid_token",
          message |-> validateResetToken(token).error]
  ELSE IF fail # "none"
    THEN [success |-> FALSE, error |-> "server_error",
          message |-> "Failed to reset password"]
  ELSE [success |-> TRUE, error |-> "",
        message |-> "Password has been reset successfully. Please log in with your new password."]

\* Variant: the passwords are not checked before the transaction.
ReachesTxn_TokenOnly(token, newPassword, confirmPassword) ==
  validateResetToken(token).valid

\* Whether resetPassword reaches its transaction (BEGIN) with these inputs.
ReachesTxn(token, newPassword, confirmPassword) ==
  /\ validatePasswordMatch(newPassword, confirmPassword)
  /\ validatePassword(newPassword)
  /\ validateResetToken(token).valid

\* The stored state resetPassword leaves.
AfterResetPassword(token, newPassword, confirmPassword, fail) ==
  IF ~ReachesTxn(token, newPassword, confirmPassword)
    THEN Db
    ELSE LET userId == validateResetToken(token).userId
             work == TxnWork(userId, token, newPassword, fail)
         IN IF fail = "none" THEN work ELSE Rollback(Db, work)

resetPassword(token, newPassword, confirmPassword, fail) ==
  /\ users' = AfterResetPassword(token, newPassword, confirmPassword, fail).users
  /\ resetTokens' =
       AfterResetPassword(token, newPassword, confirmPassword, fail).resetTokens
  /\ sessions' =
       AfterResetPassword(token, newPassword, confirmPassword, fail).sessions
  /\ consumed' = IF resetPasswordResult(token, newPassword, confirmPassword,
                                        fail).success
                   THEN consumed \cup {token} ELSE consumed
  /\ UNCHANGED <<now, verificationTokens, nextSid, nextTok, nextRid, procs, rlVars>>

\* DELETE FROM password_reset_tokens WHERE expires_at < NOW() OR used = TRUE
cleanupExpiredTokens ==
  /\ resetTokens' = {r \in resetTokens : ~(r.expires_at < now \/ r.used)}
  /\ UNCHANGED <<now, verificationTokens, sessions, nextSid, nextTok, users, nextRid, consumed,
                 procs, rlVars>>

\* ------------------------------------------------------------ rate limiter
RLEmails == {"a@example.com", "b@example.com"}
RLIps == {"10.0.0.1"}

\* lockedUntil: null
NoLock == -1

getAttemptKey(email, ip) == email \o ":" \o ip

\* Map.get / Map.set / Map.delete on the loginAttempts map
MapHas(m, key) == key \in DOMAIN m
MapSet(m, key, value) ==
  [k \in DOMAIN m \cup {key} |-> IF k = key THEN value ELSE m[k]]
MapDelete(m, key) == [k \in DOMAIN m \ {key} |-> m[k]]

\* Variant: the fresh record already counts one attempt.
FreshAttempts_CountsOne ==
  [count |-> 1, firstAttempt |-> now, lockedUntil |-> NoLock]

FreshAttempts == [count |-> 0, firstAttempt |-> now, lockedUntil |-> NoLock]

\* Variant: the lock is set only once the count has passed the maximum.
ReachedMax_Strict(count) == count > maxAttempts

\* attempts.count >= config.rateLimit.maxAttempts
ReachedMax(count) == count >= maxAttempts

\* The record recordFailedAttempt stores for the key, given the map.
recordFailedAttemptIn(m, key) ==
  LET got == IF MapHas(m, key) THEN m[key] ELSE FreshAttempts
      cur == IF now - got.firstAttempt > windowMs THEN FreshAttempts ELSE got
      inc == [cur EXCEPT !.count = cur.count + 1]
  IN IF ReachedMax(inc.count)
       THEN [inc EXCEPT !.lockedUntil = now + lockoutDurationMs]
       ELSE inc

\* The record recordFailedAttempt stores (and returns) for the key.
recordFailedAttemptResult(email, ip) ==
  recordFailedAttemptIn(loginAttempts, getAttemptKey(email, ip))

\* History: the recordFailedAttempt calls for the key since the key was
\* last cleared by clearAttempts: time of the first, time of the last, number,
\* and the latest lockout deadline any of them set (NoLock if none did).
LogFailure(key, attempts) ==
  IF MapHas(attemptLog, key)
    THEN MapSet(attemptLog, key,
                [attemptLog[key] EXCEPT
                   !.last = now, !.n = @ + 1,
                   !.deadline = IF attempts.lockedUntil # NoLock
                                  THEN attempts.lockedUntil ELSE @])
    ELSE MapSet(attemptLog, key,
                [first |-> now, last |-> now, n |-> 1,
                 deadline |-> attempts.lockedUntil])

FailuresLogged(key) == IF MapHas(attemptLog, key) THEN attemptLog[key].n ELSE 0

recordFailedAttempt(email, ip) ==
  /\ loginAttempts' = MapSet(loginAttempts, getAttemptKey(email, ip),
                             recordFailedAttemptResult(email, ip))
  /\ attemptLog' = LogFailure(getAttemptKey(email, ip),
                            recordFailedAttemptResult(email, ip))
  /\ UNCHANGED <<now, verificationTokens, sessionVars, nextTok, resetVars, procs>>

IsLocked(attempts) ==
  attempts.lockedUntil # NoLock /\ now < attempts.lockedUntil

isLoginAllowedResult(email, ip) ==
  LET key == getAttemptKey(email, ip)
  IN IF ~MapHas(loginAttempts, key) THEN [allowed |-> TRUE]
     ELSE IF IsLocked(loginAttempts[key])
       THEN [allowed |-> FALSE, reason |-> "locked",
             remainingMs |-> loginAttempts[key].lockedUntil - now]
     ELSE IF loginAttempts[key].count >= maxAttempts THEN [allowed |-> TRUE]
     ELSE [allowed |-> TRUE,
           remainingAttempts |-> maxAttempts - loginAttempts[key].count]

\* Variant: a record whose lockout has run out stays in the map.
AfterLoginCheck_Keeps(email, ip) == loginAttempts

\* The map isLoginAllowed leaves: a record whose lockout has run out is
\* deleted, anything else stays.
AfterLoginCheck(email, ip) ==
  LET key == getAttemptKey(email, ip)
  IN IF /\ MapHas(loginAttempts, key)
        /\ ~IsLocked(loginAttempts[key])
        /\ loginAttempts[key].count >= maxAttempts
       THEN MapDelete(loginAttempts, key)
       ELSE loginAttempts

isLoginAllowed(email, ip) ==
  /\ loginAttempts' = AfterLoginCheck(email, ip)
  /\ UNCHANGED <<now, verificationTokens, sessionVars, nextTok, resetVars, procs,
                 attemptLog>>

clearAttempts(email, ip) ==
  /\ loginAttempts' = MapDelete(loginAttempts, getAttemptKey(email, ip))
  /\ attemptLog' = MapDelete(attemptLog, getAttemptKey(email, ip))
  /\ UNCHANGED <<now, verificationTokens, sessionVars, nextTok, resetVars, procs>>

getAttemptCount(email, ip) ==
  IF MapHas(loginAttempts, getAttemptKey(email, ip))
    THEN loginAttempts[getAttemptKey(email, ip)].count
    ELSE 0

CleanupRemoves(attempts) ==
  /\ now - attempts.firstAttempt > windowMs
  /\ (attempts.lockedUntil = NoLock \/ now > attempts.lockedUntil)

cleanupExpiredEntries ==
  /\ loginAttempts' =
       [k \in {k \in DOMAIN loginAttempts : ~CleanupRemoves(loginAttempts[k])}
          |-> loginAttempts[k]]
  /\ UNCHANGED <<now, verificationTokens, sessionVars, nextTok, resetVars, procs, attemptLog>>

\* ------------------------------------------------------------------ login
\* "" stands for a missing email or password.
LoginEmails == {"alice@example.com", "ghost@example.com", ""}
LoginPasswords == {"OldPass1", "wrong", ""}

\* email.toLowerCase()
ToLowerCase(email) ==
  CASE email = "Alice@Example.com" -> "alice@example.com"
    [] email = " Alice@Example.com " -> " alice@example.com "
    [] OTHER -> email

bcryptCompare(password, hash) == hash = bcryptHash(password)

\* Variant: an unknown email gets an error of its own.
validateCredentials_NamesUnknown(email, password) ==
  LET found == UsersByEmail(ToLowerCase(email))
  IN IF found = {}
       THEN [success |-> FALSE, error |-> "user_not_found", userId |-> NoUser]
     ELSE LET user == CHOOSE u \in found : TRUE
          IN IF ~bcryptCompare(password, users[user].password_hash)
               THEN [success |-> FALSE, error |-> "invalid_credentials",
                     userId |-> NoUser]
             ELSE IF ~users[user].email_verified
               THEN [success |-> FALSE, error |-> "email_not_verified",
                     userId |-> NoUser]
             ELSE [success |-> TRUE, error |-> "", userId |-> user]

validateCredentials(email, password) ==
  LET found == UsersByEmail(ToLowerCase(email))
  IN IF found = {}
       THEN [success |-> FALSE, error |-> "invalid_credentials",
             userId |-> NoUser]
     ELSE LET user == CHOOSE u \in found : TRUE
          IN IF ~bcryptCompare(password, users[user].password_hash)
               THEN [success |-> FALSE, error |-> "invalid_credentials",
                     userId |-> NoUser]
             ELSE IF ~users[user].email_verified
               THEN [success |-> FALSE, error |-> "email_not_verified",
                     userId |-> NoUser]
             ELSE [success |-> TRUE, error |-> "", userId |-> user]

InvalidInput(email, password) == email = "" \/ password = ""

\* Variant: the credentials are verified before the limiter is consulted.
loginOutcome_VerifiesFirst(email, password, ip) ==
  IF InvalidInput(email, password) THEN "invalid_input"
  ELSE IF validateCredentials(email, password).success THEN "ok"
  ELSE IF ~isLoginAllowedResult(email, ip).allowed THEN "rate_limited"
  ELSE validateCredentials(email, password).error

\* How far login gets: "invalid_input", "rate_limited", a validateCredentials
\* error, or "ok".
loginOutcome(email, password, ip) ==
  IF InvalidInput(email, password) THEN "invalid_input"
  ELSE IF ~isLoginAllowedResult(email, ip).allowed THEN "rate_limited"
  ELSE IF ~validateCredentials(email, password).success
    THEN validateCredentials(email, password).error
  ELSE "ok"

\* Variant: a successful login leaves the key's record alone.
loginAttemptsAfter_NoClear(email, password, ip) ==
  LET key == getAttemptKey(email, ip)
      checked == AfterLoginCheck(email, ip)
      outcome == loginOutcome(email, password, ip)
  IN IF outcome = "invalid_input" THEN loginAttempts
     ELSE IF outcome = "rate_limited" THEN checked
     ELSE IF outcome = "ok" THEN checked
     ELSE MapSet(checked, key, recordFailedAttemptIn(checked, key))

\* The loginAttempts map login leaves.
loginAttemptsAfter(email, password, ip) ==
  LET key == getAttemptKey(email, ip)
      checked == AfterLoginCheck(email, ip)
      outcome == loginOutcome(email, password, ip)
  IN IF outcome = "invalid_input" THEN loginAttempts
     ELSE IF outcome = "rate_limited" THEN checked
     ELSE IF outcome = "ok" THEN MapDelete(checked, key)
     ELSE MapSet(checked, key, recordFailedAttemptIn(checked, key))

\* The value login returns.  The messages carry their variable part as a
\* second component: minutes left of the lockout, attempts remaining.
loginResult(email, password, ip) ==
  LET key == getAttemptKey(email, ip)
      outcome == loginOutcome(email, password, ip)
  IN IF outcome = "invalid_input"
       THEN [success |-> FALSE, error |-> "invalid_input",
             message |-> <<"Email and password are required.", 0>>]
     ELSE IF outcome = "rate_limited"
       THEN [success |-> FALSE, error |-> "rate_limited",
             message |-> <<"Account temporarily locked.",
                           isLoginAllowedResult(email, ip).remainingMs>>]
     ELSE IF outcome = "email_not_verified"
       THEN [success |-> FALSE, error |-> "email_not_verified",
             message |-> <<"Please verify your email address before logging in.", 0>>]
     ELSE IF outcome = "ok"
       THEN [success |-> TRUE, error |-> "",
             message |-> <<"", 0>>,
             user |-> validateCredentials(email, password).userId,
             session |-> [token |-> nextTok, expiresAt |-> now + expiresInMs]]
     ELSE LET attempts == loginAttemptsAfter(email, password, ip)[key].count
              remaining == maxAttempts - attempts
          IN [success |-> FALSE, error |-> outcome,
              message |-> <<"Invalid email or password.",
                            IF remaining > 0 THEN remaining ELSE 0>>]

login(email, password, ip) ==
  /\ loginAttempts' = loginAttemptsAfter(email, password, ip)
  /\ LET key == getAttemptKey(email, ip)
         outcome == loginOutcome(email, password, ip)
     IN IF outcome = "ok"
          THEN /\ attemptLog' = MapDelete(attemptLog, key)
               /\ InsertSession(validateCredentials(email, password).userId)
        ELSE IF outcome \in {"invalid_input", "rate_limited"}
          THEN UNCHANGED <<attemptLog, sessionVars, nextTok>>
        ELSE /\ attemptLog' = LogFailure(key, loginAttempts'[key])
             /\ UNCHANGED <<sessionVars, nextTok>>
  /\ UNCHANGED <<now, verificationTokens, resetVars, procs>>

\* ----------------------------------------------------------- registration
\* Emails a client submits; "not-an-email" fails EMAIL_REGEX.
RegEmails == {"carol@example.com", " Alice@Example.com ", "bob@example.com",
              "ghost@example.com", "not-an-email"}

\* The ids the users table hands out to new rows.
NewUserIds == {"u3", "u4"}
NewUserId == CHOOSE id \in NewUserIds : id \notin DOMAIN users

\* SKIP_EMAIL_VERIFICATION, off unless the environment sets it
skipEmailVerification == FALSE

validateEmail(email) ==
  IF email = "" THEN [valid |-> FALSE, error |-> "Email is required"]
  ELSE IF NormalizeEmail(email) = "not-an-email"
    THEN [valid |-> FALSE, error |-> "Invalid email format"]
  ELSE [valid |-> TRUE, error |-> ""]

validateRegistrationInput(email, password, confirmPassword) ==
  LET errors ==
        (IF validateEmail(email).valid
           THEN <<>> ELSE <<validateEmail(email).error>>)
        \o (IF validatePassword(password)
              THEN <<>> ELSE <<"Password does not meet the requirements">>)
        \o (IF validatePasswordMatch(password, confirmPassword)
              THEN <<>> ELSE <<"Passwords do not match">>)
  IN [valid |-> errors = <<>>, errors |-> errors]

\* getTokenExpiration(hours)
getTokenExpiration(hours) == now + hours

\* How far registerUser gets: "invalid", "exists" or "created".
registerUserOutcome(email, password, confirmPassword) ==
  IF ~validateRegistrationInput(email, password, confirmPassword).valid
    THEN "invalid"
  ELSE IF UsersByEmail(NormalizeEmail(email)) # {} THEN "exists"
  ELSE "created"

\* Variant: a failure of the mail transport fails the registration.
registerUserResult_MailFails(email, password, confirmPassword, mailOk) ==
  LET outcome == registerUserOutcome(email, password, confirmPassword)
      autoVerify == skipEmailVerification
  IN IF outcome = "invalid"
       THEN [success |-> FALSE,
             errors |-> validateRegistrationInput(email, password,
                                                  confirmPassword).errors]
     ELSE IF outcome = "exists"
       THEN [success |-> FALSE,
             errors |-> <<"An account with this email already exists">>]
     ELSE IF ~autoVerify /\ ~mailOk
       THEN [success |-> FALSE,
             errors |-> <<"Failed to send verification email">>]
     ELSE [success |-> TRUE,
           user |-> [id |-> NewUserId, email |-> NormalizeEmail(email),
                     emailVerified |-> autoVerify],
           message |-> IF autoVerify
                         THEN "Registration successful. Your account is ready to use (dev mode - email verification skipped)."
                         ELSE "Registration successful. Please check your email to verify your account."]

\* The value registerUser returns.  mailOk: whether the mail transport
\* accepts the message; its failure is caught and logged.
registerUserResult(email, password, confirmPassword, mailOk) ==
  LET outcome == registerUserOutcome(email, password, confirmPassword)
      autoVerify == skipEmailVerification
  IN IF outcome = "invalid"
       THEN [success |-> FALSE,
             errors |-> validateRegistrationInput(email, password,
                                                  confirmPassword).errors]
     ELSE IF outcome = "exists"
       THEN [success |-> FALSE,
             errors |-> <<"An account with this email already exists">>]
     ELSE [success |-> TRUE,
           user |-> [id |-> NewUserId, email |-> NormalizeEmail(email),
                     emailVerified |-> autoVerify],
           message |-> IF autoVerify
                         THEN "Registration successful. Your account is ready to use (dev mode - email verification skipped)."
                         ELSE "Registration successful. Please check your email to verify your account."]

\* generateToken is called on every path that reaches the insert; the token
\* is stored as generated.
registerUser(email, password, confirmPassword, mailOk) ==
  /\ IF registerUserOutcome(email, password, confirmPassword) = "created"
       THEN /\ users' = MapSet(users, NewUserId,
                               [email |-> NormalizeEmail(email),
                                password_hash |-> bcryptHash(password),
                                email_verified |-> skipEmailVerification,
                                role |-> "user"])
            /\ verificationTokens' =
                 IF skipEmailVerification
                   THEN verificationTokens
                   ELSE verificationTokens \cup
                          {[user_id |-> NewUserId, token |-> nextTok,
                            expires_at |->
                              getTokenExpiration(verificationTokenExpiry)]}
            /\ nextTok' = nextTok + 1
       ELSE UNCHANGED <<users, verificationTokens, nextTok>>
  /\ UNCHANGED <<now, sessionVars, resetTokens, nextRid, consumed, procs,
                 rlVars>>

\* SELECT ... FROM email_verification_tokens evt JOIN users u
\*   WHERE evt.expires_at > NOW(), then the comparison with the token
MatchedTokens(token) ==
  {r \in verificationTokens : r.expires_at > now /\ r.token = token}

\* Variant: the account's verified flag is not consulted.
verifyEmailResult_IgnoresVerified(token) ==
  IF token = NoToken
    THEN [success |-> FALSE, error |-> "Verification token is required"]
  ELSE IF MatchedTokens(token) = {}
    THEN [success |-> FALSE,
          error |-> "Invalid or expired verification token"]
  ELSE [success |-> TRUE, error |-> ""]

verifyEmailResult(token) ==
  IF token = NoToken
    THEN [success |-> FALSE, error |-> "Verification token is required"]
  ELSE IF MatchedTokens(token) = {}
    THEN [success |-> FALSE,
          error |-> "Invalid or expired verification token"]
  ELSE LET matchedToken == CHOOSE r \in MatchedTokens(token) : TRUE
       IN IF users[matchedToken.user_id].email_verified
            THEN [success |-> FALSE, error |-> "Email is already verified"]
            ELSE [success |-> TRUE, error |-> ""]

verifyEmail(token) ==
  /\ IF verifyEmailResult(token).success
       THEN LET user_id == (CHOOSE r \in MatchedTokens(token) : TRUE).user_id
            IN /\ users' = [users EXCEPT ![user_id].email_verified = TRUE]
               /\ verificationTokens' =
                    {r \in verificationTokens : r.user_id # user_id}
       ELSE UNCHANGED <<users, verificationTokens>>
  /\ UNCHANGED <<now, nextTok, sessionVars, resetTokens, nextRid, consumed,
                 procs, rlVars>>

\* How far resendVerificationEmail gets: "invalid", "unknown", "verified"
\* or "issued".
resendOutcome(email) ==
  IF ~validateEmail(email).valid THEN "invalid"
  ELSE IF UsersByEmail(NormalizeEmail(email)) = {} THEN "unknown"
  ELSE IF \E u \in UsersByEmail(NormalizeEmail(email)) : users[u].email_verified
    THEN "verified"
  ELSE "issued"

\* The value resendVerificationEmail returns, or the error it throws: a
\* failure of the mail transport is rethrown after the new token is committed.
resendVerificationEmailResult(email, mailOk) ==
  LET outcome == resendOutcome(email)
  IN IF outcome = "invalid"
       THEN [success |-> FALSE, error |-> validateEmail(email).error]
     ELSE IF outcome = "unknown"
       THEN [success |-> TRUE,
             message |-> "If an account exists, a verification email has been sent"]
     ELSE IF outcome = "verified"
       THEN [success |-> FALSE, error |-> "Email is already verified"]
     ELSE IF mailOk
       THEN [success |-> TRUE, message |-> "Verification email sent"]
     ELSE [success |-> FALSE, thrown |-> "Failed to send verification email"]

resendVerificationEmail(email, mailOk) ==
  /\ IF resendOutcome(email) = "issued"
       THEN LET user == CHOOSE u \in UsersByEmail(NormalizeEmail(email)) : TRUE
            IN /\ verificationTokens' =
                    {r \in verificationTokens : r.user_id # user}
                      \cup {[user_id |-> user, token |-> nextTok,
                             expires_at |->
                               getTokenExpiration(verificationTokenExpiry)]}
               /\ nextTok' = nextTok + 1
       ELSE UNCHANGED <<verificationTokens, nextTok>>
  /\ UNCHANGED <<now, users, sessionVars, resetTokens, nextRid, consumed,
                 procs, rlVars>>

\* ------------------------------------------------------------ initial state
Procs == {"p1", "p2"}

Idle == [pc |-> "idle", userId |-> NoUser, token |-> NoToken,
         password |-> "", email |-> ""]

\* A request not yet received by the authenticate middleware: req.user and
\* req.sessionToken unset, no response header set, no response sent.
\* `refresh` records how the refresh went: "none" (not tried), "ok",
\* "failed" (success: false) or "threw".
NoHeader == 0 - 2
NoRequest ==
  [pc |-> "idle", user |-> NoUser, role |-> "", sessionToken |-> NoToken,
   sessionId |-> NoSid, expiresAt |-> 0, newToken |-> NoHeader,
   tokenExpiresAt |-> NoHeader, status |-> 0, error |-> "",
   refresh |-> "none"]

InitUsers ==
  [u \in UserIds |->
     [email |-> IF u = "u1" THEN "alice@example.com" ELSE "bob@example.com",
      password_hash |-> bcryptHash("OldPass1"),
      email_verified |-> u = "u1",
      role |-> IF u = "u1" THEN "admin" ELSE "user"]]

\* The verification token of the unverified user, issued at registration.
SeedVerificationToken == 99

InitVerificationTokens ==
  {[user_id |-> u, token |-> SeedVerificationToken,
    expires_at |-> verificationTokenExpiry]
     : u \in {u \in UserIds : ~InitUsers[u].email_verified}}

Init ==
  /\ now = 0
  /\ sessions = {}
  /\ nextSid = 1
  /\ nextTok = 1
  /\ users = InitUsers
  /\ resetTokens = {}
  /\ nextRid = 1
  /\ consumed = {}
  /\ procs = [p \in Procs |-> Idle]
  /\ loginAttempts = <<>>
  /\ attemptLog = <<>>
  /\ verificationTokens = InitVerificationTokens

\* What a client can present as a token: anything ever generated, any value
\* readable from a token column, or a value that was never issued.
Presentable ==
  (0..(nextTok - 1)) \cup {s.token : s \in sessions}
                     \cup {r.token : r \in resetTokens}

SessionIds == 1..(nextSid - 1)

\* ------------------------------------------- session lifecycle, sequential
\* Sessions are opened by one user; the other user appears as the caller of
\* revokeSession / revokeAllSessions on sessions that are not theirs.
Owners == {"u1"}

Next ==
  \/ \E u \in Owners : nextTok <= MaxTokens /\ createSimpleSession(u)
  \/ \E t \in Presentable : validateSession(t)
  \/ \E t \in Presentable : refreshSession(t)
  \/ \E t \in Presentable : nextTok <= MaxTokens /\ rotateSessionToken(t)
  \/ \E i \in SessionIds, u \in UserIds : revokeSession(i, u)
  \/ \E t \in Presentable : revokeSessionByToken(t)
  \/ \E u \in UserIds, e \in SessionIds \cup {NoSid} : revokeAllSessions(u, e)
  \/ cleanupExpiredSessions
  \/ now < MaxTime /\ Tick

Spec == Init /\ [][Next]_vars

\* ------------------------------------------ concurrent-session cap only
NextCap ==
  \/ \E u \in UserIds : nextTok <= MaxCapTokens /\ createSimpleSession(u)
  \/ \E t \in Presentable : validateSession(t)
  \/ now < MaxTime /\ Tick

SpecCap == Init /\ [][NextCap]_vars

\* ------------------------------------ concurrent-session cap, concurrent
\* createSimpleSession runs in a process; the count, the eviction and the
\* insert are separate store statements, and the token is generated between
\* the eviction and the insert.
createSimpleSession_count(p, userId) ==
  /\ procs[p].pc = "idle"
  /\ procs' = [procs EXCEPT ![p] =
                 [Idle EXCEPT
                    !.pc = IF maxConcurrentSessions > 0
                              /\ getActiveSessionCount(userId)
                                    >= maxConcurrentSessions
                             THEN "evict" ELSE "insert",
                    !.userId = userId]]
  /\ UNCHANGED <<now, verificationTokens, sessionVars, nextTok, resetVars,
                 rlVars>>

\* revokeOldestSession: the UPDATE hits no row when the subquery is empty.
createSimpleSession_evict(p) ==
  /\ procs[p].pc = "evict"
  /\ IF OldestActive(procs[p].userId) = {}
       THEN UNCHANGED sessions
       ELSE \E victim \in OldestActive(procs[p].userId) :
              sessions' = revokeOldestSession(victim)
  /\ procs' = [procs EXCEPT ![p].pc = "insert"]
  /\ UNCHANGED <<now, verificationTokens, nextSid, nextTok, resetVars, rlVars>>

createSimpleSession_insert(p) ==
  /\ procs[p].pc = "insert"
  /\ sessions' = sessions
                   \cup {NewSession(procs[p].userId, hashToken(nextTok))}
  /\ nextSid' = nextSid + 1
  /\ nextTok' = nextTok + 1
  /\ procs' = [procs EXCEPT ![p] = Idle]
  /\ UNCHANGED <<now, verificationTokens, resetVars, rlVars>>

Creating == {p \in Procs : procs[p].pc \in {"evict", "insert"}}

\* MaxCapConcTokens bounds the sessions created, those in the making
\* included.
NextCapConc ==
  \/ \E p \in Procs, u \in UserIds :
       /\ nextTok + Cardinality(Creating) <= MaxCapConcTokens
       /\ createSimpleSession_count(p, u)
  \/ \E p \in Procs : createSimpleSession_evict(p)
  \/ \E p \in Procs : createSimpleSession_insert(p)
  \/ now < MaxCapConcTime /\ Tick

SpecCapConc == Init /\ [][NextCapConc]_vars

\* ------------------------------------------- createSession and its tokens
\* MaxCreateTokens bounds the tokens drawn; createSession draws two.
NextCreate ==
  \/ \E u \in UserIds : nextTok + 1 <= MaxCreateTokens /\ createSession(u)
  \/ \E u \in UserIds : nextTok <= MaxCreateTokens /\ createSimpleSession(u)
  \/ \E t \in Presentable : validateSession(t)
  \/ \E i \in SessionIds, u \in UserIds : revokeSession(i, u)
  \/ now < MaxCreateTime /\ Tick

SpecCreate == Init /\ [][NextCreate]_vars

\* -------------------------------------------- password reset, sequential
\* What a client presents as a reset token: no token, or any token ever
\* generated (a session token is a token the reset table does not know).
\* MaxResetTokens bounds the tokens generated, session and reset tokens
\* together.  The (newPassword, confirmPassword) pairs tried: an acceptable
\* password, a mismatch and a password failing the strength policy.  A
\* store failure is only observable once the transaction has begun.
ResetPresentable == 0..(nextTok - 1)

PasswordPairs == {<<"NewPass1", "NewPass1">>, <<"NewPass1", "Other2Pw">>,
                  <<"weak", "weak">>}

NextReset ==
  \/ \E u \in UserIds : nextTok <= MaxResetTokens /\ createSimpleSession(u)
  \/ \E e \in EmailInputs, m \in BOOLEAN :
       nextTok <= MaxResetTokens /\ requestPasswordReset(e, m)
  \/ \E t \in ResetPresentable, pc \in PasswordPairs :
       resetPassword(t, pc[1], pc[2], "none")
  \/ \E t \in ResetPresentable, pc \in PasswordPairs,
          f \in FailPoints \ {"none"} :
       ReachesTxn(t, pc[1], pc[2]) /\ resetPassword(t, pc[1], pc[2], f)
  \/ cleanupExpiredTokens
  \/ now < MaxResetTime /\ Tick

SpecReset == Init /\ [][NextReset]_vars

\* -------------------------------------------- password reset, concurrent
\* Each call runs in a process; a call's store statements are separate
\* steps, and steps of different calls interleave freely.  procs[p].pc is
\* the statement process p executes next.

\* requestPasswordReset up to and including SELECT id, email FROM users
requestPasswordReset_select(p, email) ==
  /\ procs[p].pc = "idle"
  /\ LET found == UsersByEmail(NormalizeEmail(email))
     IN procs' = IF found = {}
                   THEN procs
                   ELSE [procs EXCEPT ![p] =
                           [Idle EXCEPT !.pc = "invalidate",
                                        !.userId = CHOOSE u \in found : TRUE]]
  /\ UNCHANGED <<now, verificationTokens, sessionVars, nextTok, resetVars, rlVars>>

\* UPDATE password_reset_tokens SET used = TRUE WHERE user_id = $1 AND ...
requestPasswordReset_invalidate(p) ==
  /\ procs[p].pc = "invalidate"
  /\ resetTokens' = InvalidateUnused(resetTokens, procs[p].userId)
  /\ procs' = [procs EXCEPT ![p].pc = "insert"]
  /\ UNCHANGED <<now, verificationTokens, sessionVars, nextTok, users, nextRid, consumed, rlVars>>

\* generateToken, INSERT INTO password_reset_tokens, sendPasswordResetEmail
requestPasswordReset_insert(p, mailOk) ==
  /\ procs[p].pc = "insert"
  /\ resetTokens' = resetTokens
                      \cup {NewResetRow(procs[p].userId, hashToken(nextTok))}
  /\ nextRid' = nextRid + 1
  /\ nextTok' = nextTok + 1
  /\ procs' = [procs EXCEPT ![p] = Idle]
  /\ UNCHANGED <<now, verificationTokens, sessionVars, users, consumed, rlVars>>

\* resetPassword up to and including validateResetToken
resetPassword_validate(p, token, newPassword, confirmPassword) ==
  /\ procs[p].pc = "idle"
  /\ procs' = IF ReachesTxn(token, newPassword, confirmPassword)
                THEN [procs EXCEPT ![p] =
                        [pc |-> "transaction",
                         userId |-> validateResetToken(token).userId,
                         token |-> token, password |-> newPassword,
                         email |-> ""]]
                ELSE procs
  /\ UNCHANGED <<now, verificationTokens, sessionVars, nextTok, resetVars, rlVars>>

\* resetPassword from BEGIN to COMMIT or ROLLBACK
resetPassword_transaction(p, fail) ==
  /\ procs[p].pc = "transaction"
  /\ LET work == TxnWork(procs[p].userId, procs[p].token,
                         procs[p].password, fail)
         final == IF fail = "none" THEN work ELSE Rollback(Db, work)
     IN /\ users' = final.users
        /\ resetTokens' = final.resetTokens
        /\ sessions' = final.sessions
  /\ consumed' = IF fail = "none" THEN consumed \cup {procs[p].token}
                                  ELSE consumed
  /\ procs' = [procs EXCEPT ![p] = Idle]
  /\ UNCHANGED <<now, verificationTokens, nextSid, nextTok, nextRid, rlVars>>

\* Calls that have passed the user lookup and not yet inserted their token.
Requesting == {p \in Procs : procs[p].pc \in {"invalidate", "insert"}}

NextConc ==
  \/ \E p \in Procs, e \in EmailInputs :
       /\ nextTok + Cardinality(Requesting) <= MaxConcTokens
       /\ requestPasswordReset_select(p, e)
  \/ \E p \in Procs : requestPasswordReset_invalidate(p)
  \/ \E p \in Procs, m \in BOOLEAN : requestPasswordReset_insert(p, m)
  \/ \E p \in Procs, t \in ResetPresentable, pc \in PasswordPairs :
       resetPassword_validate(p, t, pc[1], pc[2])
  \/ \E p \in Procs, f \in FailPoints : resetPassword_transaction(p, f)
  \/ now < MaxConcTime /\ Tick

SpecConc == Init /\ [][NextConc]_vars

\* ------------------------------------------------------------ rate limiter
\* MaxCount bounds the failures recorded for a key between two clearAttempts.
NextRL ==
  \/ \E e \in RLEmails, i \in RLIps :
       /\ FailuresLogged(getAttemptKey(e, i)) < MaxCount
       /\ recordFailedAttempt(e, i)
  \/ \E e \in RLEmails, i \in RLIps : isLoginAllowed(e, i)
  \/ \E e \in RLEmails, i \in RLIps : clearAttempts(e, i)
  \/ cleanupExpiredEntries
  \/ now < MaxRLTime /\ Tick

SpecRL == Init /\ [][NextRL]_vars

\* ------------------------------------------------------------------ login
\* MaxLoginFailures bounds the failures on record over all keys together,
\* MaxLoginTokens the sessions opened by successful logins.
RECURSIVE FailuresOnRecord(_)
FailuresOnRecord(keys) ==
  IF keys = {} THEN 0
  ELSE LET k == CHOOSE x \in keys : TRUE
       IN attemptLog[k].n + FailuresOnRecord(keys \ {k})

NextLogin ==
  \/ \E e \in LoginEmails, w \in LoginPasswords, i \in RLIps :
       /\ FailuresOnRecord(DOMAIN attemptLog) < MaxLoginFailures
       /\ (loginOutcome(e, w, i) = "ok" => nextTok <= MaxLoginTokens)
       /\ login(e, w, i)
  \/ \E e \in LoginEmails, i \in RLIps : isLoginAllowed(e, i)
  \/ cleanupExpiredEntries
  \/ now < MaxLoginTime /\ Tick

SpecLogin == Init /\ [][NextLogin]_vars

\* ------------------------------------------------- rate limiter, by pair
\* login hands the limiter the email of the request body as it came and the
\* address Express reports (routes.js:141): an IPv4 client shows as
\* "1.2.3.4" or, on a dual-stack socket, as "::ffff:1.2.3.4".
\* MaxPairFailures bounds the failures on record over all keys together;
\* the clock runs until a lockout set at the start has run out.
MaxPairTime == lockoutDurationMs
PairEmails == {"bob@x.io", "bob@x.io:::ffff"}
PairIps == {"1.2.3.4", "::ffff:1.2.3.4"}

NextPairs ==
  \/ \E e \in PairEmails, i \in PairIps :
       /\ FailuresOnRecord(DOMAIN attemptLog) < MaxPairFailures
       /\ recordFailedAttempt(e, i)
  \/ \E e \in PairEmails, i \in PairIps : isLoginAllowed(e, i)
  \/ \E e \in PairEmails, i \in PairIps : clearAttempts(e, i)
  \/ now < MaxPairTime /\ Tick

SpecPairs == Init /\ [][NextPairs]_vars

\* ------------------------------------------------- login, overlapping calls
\* login runs in two uninterrupted pieces: up to the await of
\* validateCredentials, and from its answer to the end.  Other calls run in
\* between.
\* The second spelling passes the route's validateEmail and names the same
\* account.
LoginConcEmails == {"alice@example.com", "Alice@Example.com"}
LoginConcPasswords == {"wrong", "OldPass1"}

\* The input check and the limiter check; a call that passes them waits for
\* validateCredentials.
login_check(p, email, password, ip) ==
  /\ procs[p].pc = "idle"
  /\ IF InvalidInput(email, password)
       THEN UNCHANGED <<loginAttempts, procs>>
       ELSE /\ loginAttempts' = AfterLoginCheck(email, ip)
            /\ procs' = IF isLoginAllowedResult(email, ip).allowed
                          THEN [procs EXCEPT ![p] =
                                  [pc |-> "verify", email |-> email,
                                   password |-> password, ip |-> ip]]
                          ELSE procs
  /\ UNCHANGED <<now, verificationTokens, sessionVars, nextTok, resetVars,
                 attemptLog>>

\* validateCredentials has answered: the failure is recorded, or the key is
\* cleared and the session created.
login_finish(p) ==
  /\ procs[p].pc = "verify"
  /\ LET key == getAttemptKey(procs[p].email, procs[p].ip)
         validation == validateCredentials(procs[p].email, procs[p].password)
     IN IF ~validation.success
          THEN /\ loginAttempts' =
                    MapSet(loginAttempts, key,
                           recordFailedAttemptIn(loginAttempts, key))
               /\ attemptLog' = LogFailure(key, loginAttempts'[key])
               /\ UNCHANGED <<sessionVars, nextTok>>
          ELSE /\ loginAttempts' = MapDelete(loginAttempts, key)
               /\ attemptLog' = MapDelete(attemptLog, key)
               /\ InsertSession(validation.userId)
  /\ procs' = [procs EXCEPT ![p] = Idle]
  /\ UNCHANGED <<now, verificationTokens, resetVars>>

\* The calls waiting for validateCredentials.
Verifying == {p \in Procs : procs[p].pc = "verify"}

\* MaxLoginConcTokens bounds the sessions opened, those of calls still
\* waiting included.
NextLoginConc ==
  \/ \E p \in Procs, e \in LoginConcEmails, w \in LoginConcPasswords,
        i \in RLIps :
       /\ validateCredentials(e, w).success =>
            nextTok + Cardinality({q \in Verifying :
                                     procs[q].password = w})
              <= MaxLoginConcTokens
       /\ login_check(p, e, w, i)
  \/ \E p \in Procs : login_finish(p)
  \/ now < MaxLoginConcTime /\ Tick

SpecLoginConc == Init /\ [][NextLoginConc]_vars

\* ------------------------------------------------------------ registration
\* Tokens a client can present to verifyEmail.
VerifyPresentable == 0..(nextTok - 1) \cup {SeedVerificationToken}

RegPasswords == {<<"NewPass1", "NewPass1">>, <<"NewPass1", "Other2Pw">>}

NextReg ==
  \/ \E e \in RegEmails, pc \in RegPasswords, m \in BOOLEAN :
       /\ nextTok <= MaxRegTokens
       /\ NewUserIds \ DOMAIN users # {}
       /\ registerUser(e, pc[1], pc[2], m)
  \/ \E t \in VerifyPresentable : verifyEmail(t)
  \/ \E e \in RegEmails, m \in BOOLEAN :
       nextTok <= MaxRegTokens /\ resendVerificationEmail(e, m)
  \/ now < MaxRegTime /\ Tick

SpecReg == Init /\ [][NextReg]_vars

\* ------------------------------------------------ registration, concurrent
\* registerUser up to and including the existence pre-check
\* (SELECT id FROM users WHERE email = $1)
registerUser_precheck(p, email, password, confirmPassword) ==
  /\ procs[p].pc = "idle"
  /\ procs' = IF registerUserOutcome(email, password, confirmPassword) = "created"
                THEN [procs EXCEPT ![p] =
                        [Idle EXCEPT !.pc = "reg_insert",
                                     !.email = NormalizeEmail(email),
                                     !.password = password]]
                ELSE procs
  /\ UNCHANGED <<now, verificationTokens, sessionVars, nextTok, resetVars,
                 rlVars>>

\* Variant: the users table has no unique constraint on email.
UniqueViolation_Never(p) == FALSE

\* INSERT INTO users raises 23505 on users_email_key: a row with the email
\* has been committed since the pre-check.
UniqueViolation(p) == UsersByEmail(procs[p].email) # {}

\* The value registerUser returns from its transaction.
registerUser_insertResult(p, mailOk) ==
  IF UniqueViolation(p)
    THEN [success |-> FALSE,
          errors |-> <<"An account with this email already exists">>]
    ELSE [success |-> TRUE,
          user |-> [id |-> NewUserId, email |-> procs[p].email,
                    emailVerified |-> skipEmailVerification],
          message |-> "Registration successful. Please check your email to verify your account."]

\* registerUser from BEGIN to COMMIT or ROLLBACK, and the mail
registerUser_insert(p, mailOk) ==
  /\ procs[p].pc = "reg_insert"
  /\ IF UniqueViolation(p)
       THEN UNCHANGED <<users, verificationTokens>>
       ELSE /\ users' = MapSet(users, NewUserId,
                               [email |-> procs[p].email,
                                password_hash |-> bcryptHash(procs[p].password),
                                email_verified |-> skipEmailVerification,
                                role |-> "user"])
            /\ verificationTokens' =
                 IF skipEmailVerification
                   THEN verificationTokens
                   ELSE verificationTokens \cup
                          {[user_id |-> NewUserId, token |-> nextTok,
                            expires_at |->
                              getTokenExpiration(verificationTokenExpiry)]}
  /\ nextTok' = nextTok + 1
  /\ procs' = [procs EXCEPT ![p] = Idle]
  /\ UNCHANGED <<now, sessionVars, resetTokens, nextRid, consumed, rlVars>>

\* resendVerificationEmail up to and including
\* SELECT id, email_verified FROM users WHERE email = $1
resendVerificationEmail_select(p, email) ==
  /\ procs[p].pc = "idle"
  /\ procs' = IF resendOutcome(email) = "issued"
                THEN [procs EXCEPT ![p] =
                        [Idle EXCEPT
                           !.pc = "resend_txn",
                           !.userId = CHOOSE u \in UsersByEmail(
                                                     NormalizeEmail(email)) : TRUE]]
                ELSE procs
  /\ UNCHANGED <<now, verificationTokens, sessionVars, nextTok, resetVars,
                 rlVars>>

\* The transaction runs at the default isolation level: each statement sees
\* what was committed when it started, and a row deleted by a transaction
\* still open is locked against the others until that one commits.
\* BEGIN and the DELETE: the rows of the user visible to the statement are
\* the ones it deletes; where another open transaction has deleted one of
\* them first, this one commits after it.
resendVerificationEmail_delete(p) ==
  /\ procs[p].pc = "resend_txn"
  /\ LET targets == {r.token : r \in {x \in verificationTokens :
                                        x.user_id = procs[p].userId}}
     IN procs' = [procs EXCEPT ![p] =
                    [pc |-> "resend_insert", userId |-> procs[p].userId,
                     targets |-> targets,
                     after |-> {q \in Procs \ {p} :
                                  /\ procs[q].pc = "resend_insert"
                                  /\ procs[q].targets \cap targets # {}}]]
  /\ UNCHANGED <<now, verificationTokens, sessionVars, nextTok, resetVars,
                 rlVars>>

\* The INSERT, the COMMIT and the mail: the deleted rows go, the new token
\* appears, and the transactions waiting for this one go on.
resendVerificationEmail_commit(p, mailOk) ==
  /\ procs[p].pc = "resend_insert"
  /\ procs[p].after = {}
  /\ verificationTokens' =
       {r \in verificationTokens :
          ~(r.user_id = procs[p].userId /\ r.token \in procs[p].targets)}
         \cup {[user_id |-> procs[p].userId, token |-> nextTok,
                expires_at |-> getTokenExpiration(verificationTokenExpiry)]}
  /\ nextTok' = nextTok + 1
  /\ procs' = [q \in Procs |->
                 IF q = p THEN Idle
                 ELSE IF procs[q].pc = "resend_insert"
                   THEN [procs[q] EXCEPT !.after = @ \ {p}]
                 ELSE procs[q]]
  /\ UNCHANGED <<now, users, sessionVars, resetTokens, nextRid, consumed,
                 rlVars>>

\* Calls past their first SELECT that will draw a token.
Registering ==
  {p \in Procs : procs[p].pc \in {"reg_insert", "resend_txn", "resend_insert"}}

NextRegConc ==
  \/ \E p \in Procs, e \in RegEmails, pc \in RegPasswords :
       /\ nextTok + Cardinality(Registering) <= MaxRegConcTokens
       /\ Cardinality(NewUserIds \ DOMAIN users) > 0
       /\ registerUser_precheck(p, e, pc[1], pc[2])
  \/ \E p \in Procs, m \in BOOLEAN : registerUser_insert(p, m)
  \/ \E p \in Procs, e \in RegEmails :
       /\ nextTok + Cardinality(Registering) <= MaxRegConcTokens
       /\ resendVerificationEmail_select(p, e)
  \/ \E p \in Procs : resendVerificationEmail_delete(p)
  \/ \E p \in Procs, m \in BOOLEAN : resendVerificationEmail_commit(p, m)
  \/ \E t \in VerifyPresentable : verifyEmail(t)
  \/ now < MaxRegConcTime /\ Tick

SpecRegConc == Init /\ [][NextRegConc]_vars

\* ------------------------------------------------ authenticated requests
\* A request to a protected route runs in a process: the authenticate
\* middleware validates the bearer token, refreshes a session that is close
\* to expiry, and hands over to the route handler (next()).  The awaited
\* store calls of validateSession and refreshSession are separate steps;
\* the request record holds req.user, req.sessionToken, req.sessionId, the
\* two response headers and the response status once one is sent.
\* The refresh threshold (60 * 60 * 1000 ms) in ticks: a session created
\* in this tick lies outside it, one tick later it lies inside.
refreshThreshold == 2

\* String(undefined), what res.set stores for a value that is not there.
Undefined == 0 - 1

\* result.field of a JavaScript object: undefined when the field is absent.
Field(result, name) ==
  IF name \in DOMAIN result THEN result[name] ELSE Undefined

Faults == {"none", "throws"}

\* res.status(status).json({error}) ends the request.
Respond(p, status, error) ==
  [procs EXCEPT ![p] = [NoRequest EXCEPT !.pc = "done", !.status = status,
                                         !.error = error]]

\* authenticate up to the refresh decision.  `fault` = "throws" makes the
\* store call of validateSession raise (outer catch, 500).
authenticate_validate(p, hasBearer, token, fault) ==
  /\ procs[p].pc \in {"idle", "done"}
  /\ IF ~hasBearer
       THEN procs' = Respond(p, 401, "unauthorized") /\ UNCHANGED sessions
     ELSE IF fault = "throws"
       THEN procs' = Respond(p, 500, "server_error") /\ UNCHANGED sessions
     ELSE IF ~validateSessionResult(token).valid
       THEN procs' = Respond(p, 401, "invalid_session") /\ UNCHANGED sessions
     ELSE LET session == validateSessionResult(token)
          IN /\ sessions' = updateLastActivity(session.sessionId)
             /\ procs' = [procs EXCEPT ![p] =
                  [NoRequest EXCEPT
                     !.pc = IF session.expiresAt - now < refreshThreshold
                              THEN "refresh" ELSE "next",
                     !.user = session.userId,
                     !.role = users[session.userId].role,
                     !.sessionToken = token,
                     !.sessionId = session.sessionId,
                     !.expiresAt = session.expiresAt]]
  /\ UNCHANGED <<now, verificationTokens, nextSid, nextTok, resetVars, rlVars>>

\* What the inner try block leaves in the two headers.
RefreshHeaders(newSession) ==
  IF newSession.success
    THEN [newToken |-> Field(newSession, "token"),
          tokenExpiresAt |-> Field(newSession, "expiresAt")]
    ELSE [newToken |-> NoHeader, tokenExpiresAt |-> NoHeader]

\* Variant: the error of the refresh reaches the outer catch block.
InnerCatch_Rethrows(request) ==
  [NoRequest EXCEPT !.pc = "done", !.status = 500, !.error = "server_error"]

\* catch (refreshError): logged, the request goes on.
InnerCatch(request) == [request EXCEPT !.refresh = "threw"]

\* The request after the inner try/catch around authService.refreshSession.
\* `fault` = "throws" makes the store call of refreshSession raise.
AfterRefresh(p, fault) ==
  LET newSession == refreshSessionResult(procs[p].sessionToken)
  IN IF fault = "throws"
       THEN InnerCatch(procs[p])
       ELSE [procs[p] EXCEPT
               !.refresh = IF newSession.success THEN "ok" ELSE "failed",
               !.newToken = RefreshHeaders(newSession).newToken,
               !.tokenExpiresAt = RefreshHeaders(newSession).tokenExpiresAt]

\* The rest of authenticate: the refresh, then next() unless a response
\* has been sent.
authenticate_refresh(p, fault) ==
  /\ procs[p].pc = "refresh"
  /\ procs' = [procs EXCEPT ![p] =
                 IF AfterRefresh(p, fault).pc = "refresh"
                   THEN [AfterRefresh(p, fault) EXCEPT !.pc = "next"]
                   ELSE AfterRefresh(p, fault)]
  /\ IF fault # "throws" /\ refreshSessionResult(procs[p].sessionToken).success
       THEN sessions' = RefreshWhere(MatchedColumn(procs[p].sessionToken))
       ELSE UNCHANGED sessions
  /\ UNCHANGED <<now, verificationTokens, nextSid, nextTok, resetVars, rlVars>>

\* GET /api/me
getMe(p) ==
  /\ procs[p].pc = "next"
  /\ procs' = IF procs[p].user \in DOMAIN users
                THEN Respond(p, 200, "")
                ELSE Respond(p, 404, "not_found")
  /\ UNCHANGED <<now, verificationTokens, sessionVars, nextTok, resetVars,
                 rlVars>>

\* Variant: the foreign keys do not cascade.
OnDeleteCascade_None(rows, userId) == rows

\* user_id UUID NOT NULL REFERENCES users(id) ON DELETE CASCADE
OnDeleteCascade(rows, userId) == {r \in rows : r.user_id # userId}

\* DELETE FROM users WHERE id = $1, with the cascades of the three tables
\* that reference users.
DeleteUser(userId) ==
  /\ users' = MapDelete(users, userId)
  /\ sessions' = OnDeleteCascade(sessions, userId)
  /\ resetTokens' = OnDeleteCascade(resetTokens, userId)
  /\ verificationTokens' = OnDeleteCascade(verificationTokens, userId)

DeletePasswords == {"OldPass1", "Wrong1Pw", ""}

\* The response of DELETE /api/me.
deleteMeResult(p, password) ==
  IF password = ""
    THEN [status |-> 400, error |-> "validation_error"]
  ELSE IF procs[p].user \notin DOMAIN users
    THEN [status |-> 404, error |-> "not_found"]
  ELSE IF ~bcryptCompare(password, users[procs[p].user].password_hash)
    THEN [status |-> 401, error |-> "invalid_password"]
  ELSE [status |-> 200, error |-> ""]

\* DELETE /api/me
deleteMe(p, password) ==
  /\ procs[p].pc = "next"
  /\ procs' = Respond(p, deleteMeResult(p, password).status,
                      deleteMeResult(p, password).error)
  /\ IF deleteMeResult(p, password).status = 200
       THEN DeleteUser(procs[p].user)
       ELSE UNCHANGED <<users, sessions, resetTokens, verificationTokens>>
  /\ UNCHANGED <<now, nextSid, nextTok, nextRid, consumed, rlVars>>

\* The response of DELETE /api/admin/users/:userId, requireRole('admin')
\* included.
adminDeleteUserResult(p, userId) ==
  IF procs[p].role # "admin"
    THEN [status |-> 403, error |-> "forbidden"]
  ELSE IF userId = procs[p].user
    THEN [status |-> 400, error |-> "self_deletion"]
  ELSE IF userId \notin DOMAIN users
    THEN [status |-> 404, error |-> "not_found"]
  ELSE [status |-> 200, error |-> ""]

\* DELETE /api/admin/users/:userId
adminDeleteUser(p, userId) ==
  /\ procs[p].pc = "next"
  /\ procs' = Respond(p, adminDeleteUserResult(p, userId).status,
                      adminDeleteUserResult(p, userId).error)
  /\ IF adminDeleteUserResult(p, userId).status = 200
       THEN DeleteUser(userId)
       ELSE UNCHANGED <<users, sessions, resetTokens, verificationTokens>>
  /\ UNCHANGED <<now, nextSid, nextTok, nextRid, consumed, rlVars>>

\* What a client sends as the bearer token: a token it was given, or one
\* that was never issued.
BearerTokens == 0..(nextTok - 1)

\* Protected requests against the session store, one request at a time:
\* sessions are opened and revoked (logout) while the request is in flight,
\* and the clock advances.
Clients == {"p1"}

NextAuth ==
  \/ \E u \in DOMAIN users : nextTok <= MaxAuthTokens /\ createSimpleSession(u)
  \/ \E p \in Clients, b \in BOOLEAN, t \in BearerTokens, f \in Faults :
       authenticate_validate(p, b, t, f)
  \/ \E p \in Clients, f \in Faults : authenticate_refresh(p, f)
  \/ \E p \in Clients : getMe(p)
  \/ \E t \in BearerTokens : revokeSessionByToken(t)
  \/ now < MaxAuthTime /\ Tick

SpecAuth == Init /\ [][NextAuth]_vars

\* Account deletion: sessions, reset tokens and the seeded verification
\* token exist when a user is deleted by themselves or by the admin.
NextDel ==
  \/ \E u \in DOMAIN users : nextTok <= MaxDelTokens /\ createSimpleSession(u)
  \/ \E e \in EmailInputs, m \in BOOLEAN :
       nextTok <= MaxDelTokens /\ requestPasswordReset(e, m)
  \/ \E p \in Clients, b \in BOOLEAN, t \in BearerTokens, f \in Faults :
       authenticate_validate(p, b, t, f)
  \/ \E p \in Clients, f \in Faults : authenticate_refresh(p, f)
  \/ \E p \in Clients, pw \in DeletePasswords : deleteMe(p, pw)
  \/ \E p \in Clients, u \in UserIds : adminDeleteUser(p, u)
  \/ now < MaxDelTime /\ Tick

SpecDel == Init /\ [][NextDel]_vars

\* =========================================================== properties
IssuedTokens == 1..(nextTok - 1)

SessionFields == {"id", "user_id", "token", "expires_at", "created_at",
                  "last_activity_at", "is_revoked", "ip_address",
                  "user_agent"}

\* Every session row is still there and differs at most in the given fields.
SameExcept(allowed) ==
  /\ {s.id : s \in sessions} = {s.id : s \in sessions'}
  /\ \A s \in sessions, s2 \in sessions' :
       s.id = s2.id => \A f \in SessionFields \ allowed : s[f] = s2[f]

\* The session that currently holds token t is unexpired and not revoked.
LiveSessionOf(t) ==
  \E s \in sessions :
    s.token = hashToken(t) /\ s.expires_at > now /\ s.is_revoked = FALSE

C1_ValidIff ==
  \A t \in IssuedTokens : validateSessionResult(t).valid <=> LiveSessionOf(t)

C1_RevokePermanent ==
  \A s \in sessions :
    s.is_revoked /\ <<sessions, now>>' # <<sessions, now>> =>
      /\ \A s2 \in sessions' : s2.id = s.id => s2.is_revoked /\ s2.token = s.token
      /\ \A t \in IssuedTokens' :
           hashToken(t) = s.token => ~validateSessionResult(t).valid'

C1_FrameOriginal ==
  /\ \A t \in Presentable :
       refreshSessionResult(t).success /\ refreshSession(t)
         => SameExcept({"expires_at"})
  /\ \A t \in Presentable :
       rotateSessionTokenResult(t).success /\ rotateSessionToken(t)
         => SameExcept({"token", "expires_at"})
  /\ C1_RevokePermanent

C1_FrameAmended ==
  /\ \A t \in Presentable :
       refreshSessionResult(t).success /\ refreshSession(t)
         => SameExcept({"expires_at", "last_activity_at"})
  /\ \A t \in Presentable :
       rotateSessionTokenResult(t).success /\ rotateSessionToken(t)
         => SameExcept({"token", "expires_at", "last_activity_at"})
  /\ C1_RevokePermanent

\* C1 as stated: an issued token validates iff the session holding it has
\* expiresAt > now and is not revoked; a refresh changes only expiresAt, a
\* rotate only token and expiresAt; a revoked session never validates again.
C1_Original == []C1_ValidIff /\ [][C1_FrameOriginal]_vars

\* C1 (amended): an issued token validates iff the session holding it has
\* expiresAt > now and is not revoked; a refresh changes only expiresAt and
\* the last-activity timestamp, a rotate only token, expiresAt and the
\* last-activity timestamp; a revoked session never validates again.
C1_SessionValidity == []C1_ValidIff /\ [][C1_FrameAmended]_vars

\* A token is valid, a second one is dead because its session was revoked,
\* and a refresh has moved an expiry beyond creation time + lifetime.
C1_Witness ==
  /\ \E t \in IssuedTokens : validateSessionResult(t).valid
  /\ \E s \in sessions : s.is_revoked
  /\ \E s \in sessions : s.expires_at > s.created_at + expiresInMs

C2_RotateStep ==
  \A o \in Presentable :
    rotateSessionTokenResult(o).success /\ rotateSessionToken(o) =>
      \A prev \in SelectActiveByToken(MatchedColumn(o)),
         new \in {rotateSessionTokenResult(o).token} :
        /\ ~validateSessionResult(o).valid'
        /\ validateSessionResult(new).valid'
        /\ validateSessionResult(new).userId' = prev.user_id
        /\ validateSessionResult(new).sessionId' = prev.id
        /\ validateSessionResult(new).expiresAt' >= prev.expires_at

C2_DeadStaysDead ==
  <<sessions, now>>' # <<sessions, now>> =>
    \A t \in Presentable :
      ~validateSessionResult(t).valid => ~validateSessionResult(t).valid'

\* C2: a successful rotate leaves the old token invalid and the new token
\* valid for the same user with an expiry not earlier than before, and a
\* token that does not validate never validates at any later time.
C2_RotateInvalidatesOld == [][C2_RotateStep /\ C2_DeadStaysDead]_vars

\* Session 1 was created under token 1 and now lives under token 2.
C2_Witness ==
  \E s \in sessions :
    /\ s.id = 1 /\ s.token = hashToken(2) /\ ActiveWhere(s)
    /\ ~validateSessionResult(1).valid
    /\ validateSessionResult(2).valid

\* C3: the value stored in a session row's token column is not accepted as
\* a token by validateSession, refreshSession, rotateSessionToken or
\* revokeSessionByToken.
C3_StoredDigestUnusable ==
  \A s \in sessions :
    /\ ~validateSessionResult(s.token).valid
    /\ ~refreshSessionResult(s.token).success
    /\ ~rotateSessionTokenResult(s.token).success
    /\ ~revokeSessionByTokenResult(s.token).success

ActiveOf(u) == {s \in sessions : s.user_id = u /\ s.expires_at > now /\ ~s.is_revoked}

C9_CapInv ==
  \A u \in UserIds : Cardinality(ActiveOf(u)) <= maxConcurrentSessions

C9_CreateStep ==
  \A u \in UserIds :
    createSimpleSession(u) =>
      LET before == ActiveOf(u)
          evicted == {s \in before :
                        \E s2 \in sessions' : s2.id = s.id /\ s2.is_revoked}
      IN IF Cardinality(before) = maxConcurrentSessions
           THEN /\ Cardinality(ActiveOf(u)') = maxConcurrentSessions
                /\ Cardinality(evicted) = 1
                /\ \A v \in evicted : \A o \in before :
                     v.created_at <= o.created_at
           ELSE /\ Cardinality(ActiveOf(u)') = Cardinality(before) + 1
                /\ evicted = {}

\* C9: with cap C > 0 a user never has more than C active sessions; a
\* create at the cap leaves exactly C active and revokes exactly one
\* session, one with the earliest creation time, whatever was validated.
C9_FifoEviction == []C9_CapInv /\ [][C9_CreateStep]_vars

\* Three sessions of one user were created; the first one is revoked, was
\* created strictly before the two that are active, and one of the active
\* ones has never been touched since its creation.
C9_Witness ==
  \E u \in UserIds :
    /\ Cardinality(ActiveOf(u)) = maxConcurrentSessions
    /\ \E v \in sessions :
         /\ v.user_id = u /\ v.is_revoked
         /\ \A o \in ActiveOf(u) : v.created_at < o.created_at
         /\ \E o \in ActiveOf(u) : o.last_activity_at = o.created_at

\* ------------------------------------------------------- password reset
\* The session tokens of user u that validate.
ValidatingFor(u) ==
  {x \in Presentable : validateSessionResult(x).valid
                         /\ validateSessionResult(x).userId = u}

ValidPairs ==
  {pc \in PasswordPairs : validatePasswordMatch(pc[1], pc[2])
                            /\ validatePassword(pc[1])}

C4_ResetStep ==
  \A t \in ResetPresentable :
    validateResetToken(t).valid =>
      \A pc \in ValidPairs, u \in {validateResetToken(t).userId} :
        resetPassword(t, pc[1], pc[2], "none") =>
          /\ resetPasswordResult(t, pc[1], pc[2], "none").success
          /\ ValidatingFor(u)' = {}
          /\ \A x \in Presentable :
               validateSessionResult(x).userId # u =>
                 validateSessionResult(x)' = validateSessionResult(x)

\* C4: a successful resetPassword leaves no token that validates as a
\* session of the token's user, and validateSession answers for every other
\* token exactly what it answered before the call.
C4_ResetRevokesSessions == [][C4_ResetStep]_vars

\* A reset has succeeded and removed a session; the one session left
\* belongs to the other user and still validates.
C4_Witness ==
  /\ consumed # {}
  /\ nextSid = 3
  /\ Cardinality(sessions) = 1
  /\ \E s \in sessions :
       /\ ActiveWhere(s)
       /\ users[s.user_id].password_hash = bcryptHash("OldPass1")
       /\ \E x \in IssuedTokens : validateSessionResult(x).sessionId = s.id

C5_RaisesError ==
  \A t \in ResetPresentable, pc \in ValidPairs, f \in FailPoints \ {"none"} :
    validateResetToken(t).valid =>
      /\ ~resetPasswordResult(t, pc[1], pc[2], f).success
      /\ resetPasswordResult(t, pc[1], pc[2], f).error = "server_error"

\* Only steps that change a user, a reset token or a session are examined:
\* a step that changes none of them satisfies the failure case, and the
\* success case never leaves the token's used flag as it was.
C5_TxnStep ==
  <<users, resetTokens, sessions>>' # <<users, resetTokens, sessions>> =>
    \A t \in ResetPresentable :
      validateResetToken(t).valid =>
        \A pc \in ValidPairs, f \in FailPoints,
           u \in {validateResetToken(t).userId} :
          resetPassword(t, pc[1], pc[2], f) =>
            IF f = "none"
              THEN /\ resetPasswordResult(t, pc[1], pc[2], f).success
                   /\ users'[u].password_hash = bcryptHash(pc[1])
                   /\ \E r \in resetTokens' : r.token = hashToken(t) /\ r.used
                   /\ \A s \in sessions' : s.user_id # u
              ELSE /\ users' = users
                   /\ resetTokens' = resetTokens
                   /\ sessions' = sessions

\* C5: a resetPassword whose transaction fails at any statement raises the
\* server error and leaves users, reset tokens and sessions as they were; a
\* resetPassword that commits has changed the password hash, set the
\* token's used flag and removed the user's sessions.
C5_AllOrNothing == []C5_RaisesError /\ [][C5_TxnStep]_vars

\* A usable reset token of a user who has an active session and still the
\* old password: every statement of the transaction would change something.
C5_Witness ==
  \E r \in resetTokens :
    /\ ~r.used /\ ~(r.expires_at < now)
    /\ users[r.user_id].password_hash = bcryptHash("OldPass1")
    /\ \E s \in sessions : s.user_id = r.user_id /\ ActiveWhere(s)

StoredReset(t) == {r \in resetTokens : r.token = hashToken(t)}

C6_AlreadyUsed ==
  \A t \in consumed, pc \in ValidPairs :
    /\ ~resetPasswordResult(t, pc[1], pc[2], "none").success
    /\ resetPasswordResult(t, pc[1], pc[2], "none").message
         = "This reset token has already been used"

C6_Rejected ==
  \A t \in consumed, pc \in ValidPairs :
    /\ ~resetPasswordResult(t, pc[1], pc[2], "none").success
    /\ resetPasswordResult(t, pc[1], pc[2], "none").message
         = IF StoredReset(t) # {}
             THEN "This reset token has already been used"
             ELSE "Invalid or expired reset token"

\* A step that changes a password hash or a session is not a resetPassword
\* of a consumed token.
C6_NoEffect ==
  (users' # users \/ sessions' # sessions) =>
    \A t \in consumed, pc \in ValidPairs, f \in FailPoints :
      ~resetPassword(t, pc[1], pc[2], f)

\* C6 as stated: once resetPassword(T) has succeeded, resetPassword(T) with
\* a valid password always fails as 'already used' and changes nothing.
C6_Original == []C6_AlreadyUsed /\ [][C6_NoEffect]_vars

\* C6: once resetPassword(T) has succeeded, resetPassword(T) with a valid
\* password always fails and changes neither a password hash nor a session;
\* the reason is 'already used' while the token's row is stored and
\* 'invalid or expired' once cleanupExpiredTokens has deleted the row.
C6_SingleUse == []C6_Rejected /\ [][C6_NoEffect]_vars

\* Two tokens have been consumed; the row of one has been cleaned up, the
\* row of the other is still stored.
C6_Witness ==
  \E a \in consumed, b \in consumed :
    /\ StoredReset(a) = {}
    /\ StoredReset(b) # {}

Usable(r) == ~r.used /\ ~(r.expires_at < now)

UsableTokens(u) == {r \in resetTokens : r.user_id = u /\ Usable(r)}

C7_AtMostOne == \A u \in UserIds : Cardinality(UsableTokens(u)) <= 1

C7_RequestStep ==
  \A e \in EmailInputs, m \in BOOLEAN :
    (/\ UsersByEmail(NormalizeEmail(e)) # {}
     /\ requestPasswordReset(e, m)) =>
      \A u \in UsersByEmail(NormalizeEmail(e)) :
      \A issued \in {NewResetRow(u, hashToken(nextTok))} :
        /\ UsableTokens(u)' = {issued}
        /\ \A r \in resetTokens' :
             (r.user_id = u /\ r # issued) => r.used
        /\ {r \in resetTokens' : r.user_id # u}
             = {r \in resetTokens : r.user_id # u}

\* C7: every requestPasswordReset for an existing user leaves exactly one
\* usable token of that user, the one just issued, with every other token
\* of the user marked used and the other users' tokens as they were; in a
\* sequential history no user ever has two usable tokens.
C7_SingleLiveToken == []C7_AtMostOne /\ [][C7_RequestStep]_vars

\* Two requests for one user: the earlier token is marked used, the later
\* one is usable, and another user's token is usable as well.
C7_Witness ==
  \E a \in resetTokens, b \in resetTokens, c \in resetTokens :
    /\ a.user_id = b.user_id /\ a.id < b.id
    /\ a.used /\ Usable(b)
    /\ c.user_id # a.user_id /\ Usable(c)

\* C8: under any interleaving of concurrent requestPasswordReset calls,
\* resetPassword calls and clock advances, no user has two distinct usable
\* (unused and unexpired) reset tokens.
C8_AtMostOneUsable ==
  \A u \in UserIds : \A a \in UsableTokens(u), b \in UsableTokens(u) : a = b

\* ----------------------------------------------------------- rate limiter
\* The key has seen exactly k failures since it was last clear, all of them
\* within the window that the first one opened.
FailedInWindow(key, k) ==
  IF k = 0 THEN ~MapHas(attemptLog, key)
  ELSE /\ MapHas(attemptLog, key)
       /\ attemptLog[key].n = k
       /\ attemptLog[key].last - attemptLog[key].first <= windowMs

C10_Locked ==
  \A e \in RLEmails, i \in RLIps :
    (/\ FailedInWindow(getAttemptKey(e, i), maxAttempts)
     /\ now < attemptLog[getAttemptKey(e, i)].last + lockoutDurationMs) =>
      /\ isLoginAllowedResult(e, i).allowed = FALSE
      /\ isLoginAllowedResult(e, i).reason = "locked"
      /\ isLoginAllowedResult(e, i).remainingMs > 0

C10_Remaining(lowest) ==
  \A e \in RLEmails, i \in RLIps, k \in lowest..(maxAttempts - 1) :
    (/\ FailedInWindow(getAttemptKey(e, i), k)
     /\ (k > 0 => now - attemptLog[getAttemptKey(e, i)].first <= windowMs)) =>
      /\ isLoginAllowedResult(e, i).allowed = TRUE
      /\ "remainingAttempts" \in DOMAIN isLoginAllowedResult(e, i)
      /\ isLoginAllowedResult(e, i).remainingAttempts = maxAttempts - k

LockPending(key) ==
  /\ MapHas(attemptLog, key)
  /\ attemptLog[key].deadline # NoLock
  /\ now < attemptLog[key].deadline

\* C11: once a key has been locked with deadline D, and no clearAttempts
\* for the key has happened since, isLoginAllowed answers allowed:false at
\* every time before D.
C11_LockHolds ==
  \A e \in RLEmails, i \in RLIps :
    LockPending(getAttemptKey(e, i)) => ~isLoginAllowedResult(e, i).allowed

\* The key's record carries a lockout whose deadline has been reached.
LockRanOut(key) ==
  /\ MapHas(loginAttempts, key)
  /\ loginAttempts[key].lockedUntil # NoLock
  /\ now >= loginAttempts[key].lockedUntil

\* On a key whose lockout has run out, isLoginAllowed answers allowed:true
\* and leaves a map without the key, and login accepts the right password.
C12_CheckAnswer ==
  \A e \in LoginEmails, i \in RLIps :
    \A key \in {getAttemptKey(e, i)} :
      LockRanOut(key)
        => /\ isLoginAllowedResult(e, i).allowed
           /\ ~MapHas(AfterLoginCheck(e, i), key)
           /\ \A w \in LoginPasswords :
                validateCredentials(e, w).success => loginResult(e, w, i).success

\* An isLoginAllowed call on a key whose lockout has run out removes the
\* record, so that the count reads 0.
C12_CheckStep ==
  \A e \in LoginEmails, i \in RLIps :
    \A key \in {getAttemptKey(e, i)} :
      (LockRanOut(key) /\ isLoginAllowed(e, i))
        => /\ ~MapHas(loginAttempts', key)
           /\ getAttemptCount(e, i)' = 0

\* A login with the right password of a verified account, on a key whose
\* lockout has run out or that is clear again, succeeds and leaves the
\* counter at 0.
C12_LoginStep ==
  \A e \in LoginEmails, w \in LoginPasswords, i \in RLIps :
    \A key \in {getAttemptKey(e, i)} :
      ( /\ LockRanOut(key) \/ ~MapHas(loginAttempts, key)
        /\ validateCredentials(e, w).success
        /\ login(e, w, i) )
        => /\ loginResult(e, w, i).success
           /\ ~MapHas(loginAttempts', key)
           /\ getAttemptCount(e, i)' = 0

\* C12: once the lockout deadline has passed, the next isLoginAllowed
\* returns allowed:true and puts the key back to Clear (record removed,
\* count 0) with no sweep needed, and a following login with the right
\* password succeeds and leaves the counter at 0.
C12_LockoutEnds ==
  []C12_CheckAnswer /\ [][C12_CheckStep /\ C12_LoginStep]_vars

\* The lockout of alice's key has just run out and isLoginAllowed has removed
\* the record (the sweep only removes it after the deadline).
C12_Witness ==
  \E i \in RLIps :
    \E key \in {getAttemptKey("alice@example.com", i)} :
      /\ MapHas(attemptLog, key)
      /\ attemptLog[key].deadline # NoLock
      /\ now = attemptLog[key].deadline
      /\ ~MapHas(loginAttempts, key)

\* C13: a login that succeeds while the key has fewer than maxAttempts
\* failures on record puts the key back to Clear: getAttemptCount reads 0
\* afterwards and the next isLoginAllowed answers as for a key with no
\* failure on record.
C13_SuccessClears ==
  [][\A e \in LoginEmails, w \in LoginPasswords, i \in RLIps :
       ( /\ getAttemptCount(e, i) < maxAttempts
         /\ loginOutcome(e, w, i) = "ok"
         /\ login(e, w, i) )
         => /\ getAttemptCount(e, i)' = 0
            /\ isLoginAllowedResult(e, i)' = [allowed |-> TRUE]]_vars

\* Alice's key has failures on record, fewer than maxAttempts, and her login
\* with the right password is about to go through.
C13_Witness ==
  \E i \in RLIps :
    /\ getAttemptCount("alice@example.com", i) \in 1..(maxAttempts - 1)
    /\ loginOutcome("alice@example.com", "OldPass1", i) = "ok"
    /\ nextTok <= MaxLoginTokens

\* The rate limiter's record of the key, if any.
NoRecord == [count |-> 0, firstAttempt |-> -1, lockedUntil |-> NoLock]
RecordOf(m, key) == IF MapHas(m, key) THEN m[key] ELSE NoRecord

\* The email belongs to no account / to an account with another password.
Unregistered(email) == UsersByEmail(ToLowerCase(email)) = {}
WrongPassword(email, password) ==
  \E u \in UsersByEmail(ToLowerCase(email)) :
    ~bcryptCompare(password, users[u].password_hash)

\* C14: when the rate limiter holds the same record for both keys, a login
\* with an unregistered email and a login with a registered email and a wrong
\* password return the same result (error 'invalid_credentials', same
\* message) and leave the same record.
C14_NoEnumeration ==
  \A e1 \in LoginEmails, e2 \in LoginEmails, i \in RLIps :
    \A w1 \in LoginPasswords, w2 \in LoginPasswords :
      ( /\ ~InvalidInput(e1, w1) /\ ~InvalidInput(e2, w2)
        /\ Unregistered(e1)
        /\ WrongPassword(e2, w2)
        /\ RecordOf(loginAttempts, getAttemptKey(e1, i))
             = RecordOf(loginAttempts, getAttemptKey(e2, i)) )
        => /\ loginResult(e1, w1, i) = loginResult(e2, w2, i)
           /\ loginResult(e1, w1, i).error
                \in {"invalid_credentials", "rate_limited"}
           /\ RecordOf(loginAttemptsAfter(e1, w1, i), getAttemptKey(e1, i))
                = RecordOf(loginAttemptsAfter(e2, w2, i), getAttemptKey(e2, i))

\* Both keys carry the same record of earlier failed logins, and the failed
\* login of either is answered with 'invalid_credentials'.
C14_Witness ==
  \E i \in RLIps :
    /\ MapHas(loginAttempts, getAttemptKey("ghost@example.com", i))
    /\ MapHas(loginAttempts, getAttemptKey("alice@example.com", i))
    /\ loginAttempts[getAttemptKey("ghost@example.com", i)]
         = loginAttempts[getAttemptKey("alice@example.com", i)]
    /\ loginAttempts[getAttemptKey("alice@example.com", i)].count >= 2
    /\ loginResult("alice@example.com", "wrong", i).error = "invalid_credentials"

\* C15: requestPasswordReset returns the same payload for an email that
\* belongs to a user and for one that does not, whatever the mail transport
\* does with the message.
C15_UniformPayload ==
  \A e1 \in EmailInputs, e2 \in EmailInputs, mailOk \in BOOLEAN :
    requestPasswordResetResult(e1, mailOk) = requestPasswordResetResult(e2, mailOk)

\* C17: a requestPasswordReset for an existing user during which the mail
\* transport fails still returns the uniform success payload, and the token
\* it stored is usable.
C17_MailFailureSwallowed ==
  [][\A e \in EmailInputs, issued \in {nextTok} :
       (UsersByEmail(NormalizeEmail(e)) # {} /\ requestPasswordReset(e, FALSE))
         => /\ requestPasswordResetResult(e, FALSE)
                = [success |-> TRUE, message |-> SuccessMessage]
            /\ validateResetToken(issued)'.valid]_vars

\* C16: resendVerificationEmail returns the same payload for every
\* well-formed email, whether it belongs to a verified account, to an
\* unverified account or to none (mail transport working).
C16_UniformResend ==
  \A e1 \in RegEmails, e2 \in RegEmails :
    (validateEmail(e1).valid /\ validateEmail(e2).valid)
      => resendVerificationEmailResult(e1, TRUE)
           = resendVerificationEmailResult(e2, TRUE)

C19_RefreshStep ==
  \A t \in Presentable :
    (validateSessionResult(t).valid /\ refreshSession(t))
      => \A sid \in {validateSessionResult(t).sessionId} :
           /\ refreshSessionResult(t).success
           /\ refreshSessionResult(t).expiresAt = now + expiresInMs
           /\ {s.id : s \in sessions'} = {s.id : s \in sessions}
           /\ \A s \in sessions, s2 \in sessions' :
                s.id = s2.id =>
                  IF s.id = sid
                    THEN /\ s2.expires_at = now + expiresInMs
                         /\ s2.token = s.token
                         /\ s2.user_id = s.user_id
                         /\ s2.is_revoked = s.is_revoked
                         /\ s2.created_at = s.created_at
                    ELSE s2 = s
           /\ validateSessionResult(t)'.valid
           /\ validateSessionResult(t)'.sessionId = sid

\* C19: refreshSession(token) on a currently valid session sets its expiry
\* to now + expiresInMs and leaves its token, user, revoked flag and creation
\* time as they were; the token still validates, for the same session id,
\* and no other session row changes.
C19_RefreshFrame == [][C19_RefreshStep]_vars

\* Two sessions are active; the first was refreshed after the second was
\* opened, so its expiry lies beyond creation time + lifetime while the
\* second still has the expiry it was created with.
C19_Witness ==
  \E s \in sessions, o \in sessions :
    /\ s.id # o.id
    /\ ActiveWhere(s) /\ ActiveWhere(o)
    /\ s.expires_at = now + expiresInMs
    /\ s.expires_at > s.created_at + expiresInMs
    /\ o.expires_at = o.created_at + expiresInMs
    /\ o.expires_at < s.expires_at

\* What revokeSession answers: failure for a session of another user or one
\* already revoked, success for the caller's own unrevoked session.
C20_Answer ==
  \A s \in sessions, u \in UserIds :
    revokeSessionResult(s.id, u).success <=> (s.user_id = u /\ ~s.is_revoked)

\* A revoked session validates under no token.
C20_RevokedDead ==
  \A s \in sessions :
    s.is_revoked =>
      \A t \in Presentable : validateSessionResult(t).sessionId # s.id

\* A refused revokeSession changes no row; a successful one revokes the
\* session, which then validates under no token.
C20_RevokeStep ==
  \A i \in SessionIds, u \in UserIds :
    revokeSession(i, u) =>
      IF revokeSessionResult(i, u).success
        THEN /\ \A s2 \in sessions' : s2.id = i => s2.is_revoked
             /\ \A t \in Presentable' : validateSessionResult(t)'.sessionId # i
        ELSE sessions' = sessions

\* A revoked session stays revoked for as long as its row exists.
C20_StaysRevoked ==
  \A s \in sessions, s2 \in sessions' :
    (s.is_revoked /\ s2.id = s.id) => s2.is_revoked

\* C20: revokeSession(sessionId, userId) on another user's session returns
\* success:false and leaves the session as it was (it still validates); on an
\* already revoked session it returns success:false and changes nothing; on
\* the owner's active session it returns success:true and the session never
\* validates again.
C20_ScopedRevoke ==
  /\ [](C20_Answer /\ C20_RevokedDead)
  /\ [][C20_RevokeStep /\ C20_StaysRevoked]_vars

\* One session of u1 has been revoked and its token no longer validates; the
\* other is still valid, and a revokeSession on it by u2 is refused.
C20_Witness ==
  \E s \in sessions, o \in sessions :
    /\ s.is_revoked /\ s.expires_at > now
    /\ \E t \in IssuedTokens :
         s.token = hashToken(t) /\ ~validateSessionResult(t).valid
    /\ ~o.is_revoked /\ o.user_id = "u1"
    /\ \E t \in IssuedTokens : validateSessionResult(t).sessionId = o.id
    /\ ~revokeSessionResult(o.id, "u2").success
    /\ revokeSessionResult(o.id, "u1").success

\* The rows revokeAllSessions(u, e) is meant for: those of u, other than e
\* when e is given.
Targeted(s, u, e) == s.user_id = u /\ (e # NoSid => s.id # e)

\* A revokeAllSessions step: every targeted row ends revoked, every other
\* row keeps revoked flag, expiry and token, and with no exception given no
\* token validates for the user afterwards.
C21_Frame(u, e) ==
  /\ {s.id : s \in sessions'} = {s.id : s \in sessions}
  /\ \A s \in sessions, s2 \in sessions' :
       s.id = s2.id =>
         IF Targeted(s, u, e)
           THEN s2.is_revoked
           ELSE /\ s2.is_revoked = s.is_revoked
                /\ s2.expires_at = s.expires_at
                /\ s2.token = s.token
  /\ e = NoSid =>
       \A t \in Presentable' : validateSessionResult(t)'.userId # u

\* The rows the step turned from unrevoked to revoked.
NewlyRevoked ==
  {s \in sessions : ~s.is_revoked /\ \E s2 \in sessions' :
                                       s2.id = s.id /\ s2.is_revoked}

\* Some row went from unrevoked to revoked and nothing but the session
\* table changed: what every effective revokeAllSessions step does.
RevokingStep ==
  /\ now' = now /\ nextTok' = nextTok /\ nextSid' = nextSid
  /\ \E s \in sessions' : s.is_revoked /\ s \notin sessions

C21_StepOriginal ==
  RevokingStep =>
  \A u \in UserIds, e \in SessionIds \cup {NoSid} :
    revokeAllSessions(u, e) =>
      /\ C21_Frame(u, e)
      /\ revokeAllSessionsResult(u, e).count
           = Cardinality({s \in sessions : Targeted(s, u, e) /\ ActiveWhere(s)})

C21_StepAmended ==
  RevokingStep =>
  \A u \in UserIds, e \in SessionIds \cup {NoSid} :
    revokeAllSessions(u, e) =>
      /\ C21_Frame(u, e)
      /\ revokeAllSessionsResult(u, e).success
      /\ revokeAllSessionsResult(u, e).count = Cardinality(NewlyRevoked)
      /\ \A s \in NewlyRevoked : Targeted(s, u, e)

\* C21 as stated: revokeAllSessions(userId, exceptSessionId) revokes every
\* active session of userId other than exceptSessionId and returns the
\* number of those active sessions; the excepted session and the sessions of
\* other users keep revoked flag, expiry and token; with no exceptSessionId
\* no session of the user validates afterwards.
C21_Original == [][C21_StepOriginal]_vars

\* C21 (amended): revokeAllSessions(userId, exceptSessionId) revokes every
\* not yet revoked session of userId other than exceptSessionId, expired
\* ones included, and returns the number of rows it revoked; the excepted
\* session and the sessions of other users keep revoked flag, expiry and
\* token; with no exceptSessionId no session of the user validates
\* afterwards.
C21_RevokeAll == [][C21_StepAmended]_vars

\* Of two sessions, one was spared by a revoke-all and still validates; the
\* other was revoked only after it had expired.
C21_Witness ==
  \E s \in sessions, o \in sessions :
    /\ s.is_revoked /\ s.last_activity_at >= s.expires_at
    /\ ~o.is_revoked /\ ActiveWhere(o)
    /\ revokeAllSessionsResult("u1", o.id).count = 0
    /\ revokeAllSessionsResult("u1", NoSid).count = 1

\* A cleanupExpiredSessions step deletes only expired or revoked rows, none
\* that validates, and leaves every answer of validateSession,
\* refreshSession and rotateSessionToken as it was.
C22_CleanupStep ==
  cleanupExpiredSessions =>
    /\ sessions' \subseteq sessions
    /\ \A s \in sessions \ sessions' :
         /\ s.expires_at < now \/ s.is_revoked
         /\ \A t \in Presentable : validateSessionResult(t).sessionId # s.id
    /\ {s \in sessions' : ActiveWhere(s)} = {s \in sessions : ActiveWhere(s)}
    /\ \A t \in Presentable :
         /\ validateSessionResult(t)' = validateSessionResult(t)
         /\ refreshSessionResult(t)' = refreshSessionResult(t)
         /\ rotateSessionTokenResult(t)' = rotateSessionTokenResult(t)

\* C22: cleanupExpiredSessions deletes only rows that are expired
\* (expires_at < now) or revoked, never a row that validates, and for every
\* token validateSession, refreshSession and rotateSessionToken answer the
\* same whether or not the cleanup ran first.
C22_CleanupInvisible == [][C22_CleanupStep]_vars

\* A cleanup has deleted a row while another session still validates.
C22_Witness ==
  /\ Cardinality(sessions) < nextSid - 1
  /\ \A s \in sessions : ~CleanupWhere(s)
  /\ \E t \in IssuedTokens : validateSessionResult(t).valid

\* Password pairs resetPassword turns down: a mismatched confirmation, a
\* password failing the strength policy.
RejectedPairs == PasswordPairs \ ValidPairs

\* C23: resetPassword answers a mismatched confirmation or a password
\* failing the strength policy with 'validation_error' whatever the token
\* is, without touching the store: the reset tokens, the password hashes and
\* the sessions stay as they are, and a token that was usable is still
\* usable with a proper password.
C23_RejectsBeforeStore ==
  \A t \in ResetPresentable, pc \in RejectedPairs :
    /\ resetPasswordResult(t, pc[1], pc[2], "none").error = "validation_error"
    /\ resetPasswordResult(t, pc[1], pc[2], "none")
         = resetPasswordResult(NoToken, pc[1], pc[2], "none")
    /\ AfterResetPassword(t, pc[1], pc[2], "none") = Db
    /\ validateResetToken(t).valid =>
         /\ ValidateResetIn(AfterResetPassword(t, pc[1], pc[2],
                                               "none").resetTokens, t).valid
         /\ \A ok \in ValidPairs :
              resetPasswordResult(t, ok[1], ok[2], "none").success

\* A usable reset token is stored for a user who has a session: presented
\* with a weak password it is turned down, with a proper one it would go
\* through.
C23_Witness ==
  \E t \in ResetPresentable :
    /\ validateResetToken(t).valid
    /\ \E s \in sessions : s.user_id = validateResetToken(t).userId
    /\ resetPasswordResult(t, "weak", "weak", "none").error = "validation_error"
    /\ resetPasswordResult(t, "NewPass1", "Other2Pw", "none").error
         = "validation_error"
    /\ resetPasswordResult(t, "NewPass1", "NewPass1", "none").success

\* The stored verification rows that carry the token.
StoredVerification(t) == {r \in verificationTokens : r.token = t}

\* Only a stored token is accepted, and a stored, unexpired token of an
\* account that is already verified is turned down as such.
C24_Outcomes ==
  /\ \A t \in VerifyPresentable :
       verifyEmailResult(t).success => StoredVerification(t) # {}
  /\ \A r \in verificationTokens :
       (r.expires_at > now /\ users[r.user_id].email_verified)
         => verifyEmailResult(r.token)
              = [success |-> FALSE, error |-> "Email is already verified"]

\* A successful verifyEmail sets the flag and deletes the user's tokens; the
\* token is then refused, and a refused verifyEmail changes nothing.
C24_VerifyStep ==
  \A t \in VerifyPresentable :
    verifyEmail(t) =>
      IF verifyEmailResult(t).success
        THEN \A r \in MatchedTokens(t) :
               /\ users'[r.user_id].email_verified
               /\ \A r2 \in verificationTokens' : r2.user_id # r.user_id
               /\ ~verifyEmailResult(t)'.success
        ELSE UNCHANGED <<users, verificationTokens>>

\* A token that is no longer stored is never stored again.
C24_GoneStaysGone ==
  \A t \in VerifyPresentable :
    StoredVerification(t) = {} => StoredVerification(t)' = {}

\* C24: after verifyEmail(token) succeeds the user's verified flag is set and
\* the user's verification tokens are deleted; any later verifyEmail with the
\* same token is rejected and changes nothing; verifyEmail with a token of an
\* already verified account is rejected with 'Email is already verified'.
C24_VerifyOnce ==
  []C24_Outcomes /\ [][C24_VerifyStep /\ C24_GoneStaysGone]_vars

\* Bob has verified his email with the token he was sent, which is gone; a
\* resend that had looked him up before then has stored a new token for him.
C24_Witness ==
  /\ users["u2"].email_verified
  /\ StoredVerification(SeedVerificationToken) = {}
  /\ \E r \in verificationTokens :
       /\ r.user_id = "u2" /\ r.expires_at > now
       /\ verifyEmailResult(r.token).error = "Email is already verified"

RegistrationEmails == {NormalizeEmail(e) : e \in RegEmails}

C25_OneRowPerEmail ==
  \A e \in RegistrationEmails : Cardinality(UsersByEmail(e)) <= 1

\* The transaction of a registerUser call that passed the pre-check: if a
\* row with the email has been committed meanwhile the call returns the
\* 'already exists' error and stores nothing; otherwise it succeeds, stores
\* one user row and one token, and every other call in flight for the same
\* email is bound to lose.
C25_InsertStep ==
  \A p \in Procs, m \in BOOLEAN :
    registerUser_insert(p, m) =>
      IF UniqueViolation(p)
        THEN /\ registerUser_insertResult(p, m)
                  = [success |-> FALSE,
                     errors |-> <<"An account with this email already exists">>]
             /\ UNCHANGED <<users, verificationTokens, sessions, resetTokens>>
        ELSE /\ registerUser_insertResult(p, m).success
             /\ Cardinality(DOMAIN users') = Cardinality(DOMAIN users) + 1
             /\ Cardinality(verificationTokens')
                  = Cardinality(verificationTokens) + 1
             /\ \A q \in Procs \ {p} :
                  (procs[q].pc = "reg_insert" /\ procs[q].email = procs[p].email)
                    => /\ UniqueViolation(q)'
                       /\ ~registerUser_insertResult(q, m)'.success

SessionTokensOf(u) ==
  {t \in Presentable :
     \E s \in sessions : s.user_id = u /\ s.token \in {t, hashToken(t)}}

ResetTokensOf(u) ==
  {t \in Presentable :
     \E r \in resetTokens : r.user_id = u /\ r.token = hashToken(t)}

VerificationTokensOf(u) ==
  {r.token : r \in {v \in verificationTokens : v.user_id = u}}

\* No row of the three tables refers to a user that is not stored.
C26_NoOrphans ==
  \A r \in sessions \cup resetTokens \cup verificationTokens :
    r.user_id \in DOMAIN users

\* A step that deletes user u leaves no row of u, accepts none of u's
\* tokens afterwards, and keeps every row of every other user as it was.
C26_DeleteStep ==
  \A u \in DOMAIN users \ DOMAIN users' :
    /\ \A r \in sessions' \cup resetTokens' \cup verificationTokens' :
         r.user_id # u
    /\ \A t \in SessionTokensOf(u) : ~validateSessionResult(t)'.valid
    /\ \A t \in ResetTokensOf(u) : ~validateResetToken(t)'.valid
    /\ \A t \in VerificationTokensOf(u) : ~verifyEmailResult(t)'.success
    /\ sessions' = {s \in sessions : s.user_id # u}
    /\ resetTokens' = {r \in resetTokens : r.user_id # u}
    /\ verificationTokens' = {v \in verificationTokens : v.user_id # u}
    /\ \A o \in DOMAIN users \ {u} : o \in DOMAIN users' /\ users'[o] = users[o]

SummaryFields == {"id", "ip", "userAgent", "lastActivity", "createdAt",
                  "expiresAt"}

\* The sessions of u that some presentable token validates for.
ValidatingIds(u) ==
  {validateSessionResult(t).sessionId :
     t \in {p \in Presentable : /\ validateSessionResult(p).valid
                                /\ validateSessionResult(p).userId = u}}

\* C27: getActiveSessions(userId) lists exactly the sessions of userId that
\* currently validate, most recently active first, each with the six
\* summary fields taken from its row; no summary carries the token column,
\* and no session of another user is listed.
C27_ActiveListing ==
  \A u \in UserIds :
    /\ getActiveSessionsResults(u) # {}
    /\ \A list \in getActiveSessionsResults(u) :
         /\ {list[i].id : i \in DOMAIN list} = ValidatingIds(u)
         /\ \A i, j \in DOMAIN list :
              /\ i # j => list[i].id # list[j].id
              /\ i < j => list[i].lastActivity >= list[j].lastActivity
         /\ \A i \in DOMAIN list :
              /\ DOMAIN list[i] = SummaryFields
              /\ \E s \in sessions :
                   /\ s.id = list[i].id
                   /\ s.user_id = u
                   /\ s.expires_at > now /\ ~s.is_revoked
                   /\ list[i] = [id |-> s.id, ip |-> s.ip_address,
                                 userAgent |-> s.user_agent,
                                 lastActivity |-> s.last_activity_at,
                                 createdAt |-> s.created_at,
                                 expiresAt |-> s.expires_at]
                   /\ \A f \in {"id", "lastActivity", "createdAt",
                                "expiresAt"} : list[i][f] # s.token

\* Two sessions of alice are listed and the one opened first comes first,
\* because it was used last.
C27_Witness ==
  \E list \in getActiveSessionsResults("u1") :
    /\ Len(list) = 2
    /\ list[1].lastActivity > list[2].lastActivity
    /\ list[1].createdAt < list[2].createdAt

\* ---------------------------------------------------------------- C28
\* What the limiter holds for the pair: failure count and lockout deadline.
PairState(email, ip) ==
  [count |-> getAttemptCount(email, ip),
   lockedUntil |-> RecordOf(loginAttempts, getAttemptKey(email, ip)).lockedUntil]

\* The step is a limiter operation on the pair.
OperatesOn(email, ip) ==
  \/ recordFailedAttempt(email, ip)
  \/ isLoginAllowed(email, ip)
  \/ clearAttempts(email, ip)

\* C28: failed-attempt state is kept per (email, ip) pair: recordFailedAttempt,
\* clearAttempts and the lazy reset of isLoginAllowed for one pair leave the
\* count and the lockout deadline of every other pair unchanged.
C28_PairIsolation ==
  [][\A e \in PairEmails, i \in PairIps :
       OperatesOn(e, i) =>
         \A e2 \in PairEmails, i2 \in PairIps :
           <<e2, i2>> # <<e, i>> => PairState(e2, i2)' = PairState(e2, i2)]_vars

\* ---------------------------------------------------------------- C29
\* The request was passed on to the route handler with req.user and
\* req.sessionToken as validateSession left them and no response sent.
PassedOn(after, before) ==
  /\ after.pc = "next"
  /\ after.status = 0
  /\ after.user = before.user /\ after.user # NoUser
  /\ after.sessionToken = before.sessionToken
  /\ after.sessionId = before.sessionId

\* However the refresh goes, the inner try/catch sends no response and
\* leaves control in the middleware (pc unchanged), on its way to next().
C29_RefreshHarmless ==
  \A p \in Procs :
    procs[p].pc = "refresh" =>
      \A f \in Faults :
        /\ AfterRefresh(p, f).pc = "refresh"
        /\ AfterRefresh(p, f).status = 0
        /\ AfterRefresh(p, f).user = procs[p].user
        /\ AfterRefresh(p, f).sessionToken = procs[p].sessionToken

\* A request leaves the middleware either answered by the middleware before
\* any session was found, or passed on; a request whose session validated
\* is passed on.
C29_AuthStep ==
  \A p \in Procs :
    procs'[p] # procs[p] =>
      /\ procs[p].pc = "refresh" => PassedOn(procs'[p], procs[p])
      /\ procs[p].pc \in {"idle", "done"} /\ procs'[p].pc # "done" =>
           /\ procs'[p].pc \in {"refresh", "next"}
           /\ procs'[p].status = 0
           /\ validateSessionResult(procs'[p].sessionToken).valid
           /\ procs'[p].user =
                validateSessionResult(procs'[p].sessionToken).userId
      /\ procs[p].pc \in {"idle", "done"} /\ procs'[p].pc = "done" =>
           procs'[p].status \in {401, 500}

\* C29: a failed or throwing auto-refresh never fails the original request:
\* whenever validateSession returned valid, next() is called with req.user
\* and req.sessionToken set, whether the refresh succeeded, returned
\* success: false or threw.
C29_RefreshNeverFails == []C29_RefreshHarmless /\ [][C29_AuthStep]_vars

\* The refresh found the session gone (success: false) and the request is
\* with the route handler all the same.
C29_Witness ==
  /\ procs["p1"].pc = "next"
  /\ procs["p1"].refresh = "failed"
  /\ procs["p1"].user = "u1"
  /\ procs["p1"].sessionToken = 1

\* ---------------------------------------------------------------- C30
\* C30: when authenticate finds the validated session expiring within the
\* threshold and the refresh succeeds, X-New-Token holds a token that
\* validates for the same session and X-Token-Expires-At holds that
\* session's new expiry.
C30_NewTokenValidates ==
  [][\A p \in Procs :
       procs[p].pc = "refresh" /\ procs'[p].refresh = "ok" =>
         \A header \in {procs'[p].newToken} :
           /\ procs'[p].tokenExpiresAt = now + expiresInMs
           /\ validateSessionResult(header)'.valid
           /\ validateSessionResult(header)'.sessionId = procs[p].sessionId]_vars

\* ---------------------------------------------------------------- C31
\* An eviction step revokes at most one session, and only one of the user
\* the create is for.
C31_EvictStep ==
  \A p \in Procs :
    createSimpleSession_evict(p) =>
      /\ Cardinality(NewlyRevoked) <= 1
      /\ \A s \in NewlyRevoked : s.user_id = procs[p].userId

\* C31: when createSimpleSession calls for one user interleave at the cap,
\* the only deviation from the sequential outcome is one extra eviction: a
\* user never has more than C active sessions, and no session of another
\* user is revoked.
C31_CapUnderRace == []C9_CapInv /\ [][C31_EvictStep]_vars

\* ---------------------------------------------------------------- C32
\* C32: a reset token is single-use under concurrency: of the resetPassword
\* calls presenting one token, at most one commits its transaction (returns
\* success and applies its password update); a call never commits for a
\* token a call has already committed for.
C32_SingleUseConcurrent ==
  [][\A p \in Procs :
       procs[p].pc = "transaction" /\ resetPassword_transaction(p, "none")
         => procs[p].token \notin consumed]_vars

\* ---------------------------------------------------------------- C33
\* The key is Locked: it has a record whose lockout deadline lies ahead.
KeyLocked(email, ip) ==
  /\ MapHas(loginAttempts, getAttemptKey(email, ip))
  /\ IsLocked(loginAttempts[getAttemptKey(email, ip)])

\* While the key is Locked every login for it, with whatever password,
\* answers 'rate_limited' and leaves the limiter's map as it is.
C33_LockedAnswer ==
  \A e \in LoginEmails \ {""}, i \in RLIps :
    KeyLocked(e, i) =>
      \A w \in LoginPasswords \ {""} :
        /\ loginOutcome(e, w, i) = "rate_limited"
        /\ loginResult(e, w, i).error = "rate_limited"
        /\ ~loginResult(e, w, i).success
        /\ loginResult(e, w, i) = loginResult(e, "OldPass1", i)
        /\ loginAttemptsAfter(e, w, i) = loginAttempts

\* No step taken while the key of the one account that can log in is Locked
\* opens a session or touches the key's record.
C33_LockedStep ==
  \A i \in RLIps :
    KeyLocked("alice@example.com", i) =>
      /\ sessions' = sessions /\ nextTok' = nextTok
      /\ MapHas(loginAttempts', getAttemptKey("alice@example.com", i))
      /\ loginAttempts'[getAttemptKey("alice@example.com", i)]
           = loginAttempts[getAttemptKey("alice@example.com", i)]

\* C33: login consults the rate limiter before the credential verifier:
\* while the (email, ip) key is Locked, login returns 'rate_limited' without
\* verifying the password, creates no session and leaves the attempt counter
\* unchanged, even when the supplied password is correct.
C33_LimiterFirst == []C33_LockedAnswer /\ [][C33_LockedStep]_vars

\* alice's key is locked after maxAttempts failures, time has passed, and
\* the correct password, which the verifier would accept, is turned away.
C33_Witness ==
  \E i \in RLIps :
    /\ KeyLocked("alice@example.com", i)
    /\ now > loginAttempts[getAttemptKey("alice@example.com", i)].firstAttempt
    /\ validateCredentials("alice@example.com", "OldPass1").success
    /\ loginResult("alice@example.com", "OldPass1", i).error = "rate_limited"
    /\ sessions = {}

\* ---------------------------------------------------------------- C34
\* C34: for one key starting Clear, under any interleaving of login calls
\* with wrong passwords, at most maxAttempts credential verifications fail
\* within one window before the key is Locked and further calls are turned
\* away: the failures on record for a key never exceed maxAttempts.
C34_AtMostMaxVerifications ==
  \A key \in DOMAIN attemptLog :
    attemptLog[key].last - attemptLog[key].first <= windowMs =>
      attemptLog[key].n <= maxAttempts

\* ---------------------------------------------------------------- C35
\* C35: the failed-attempt counter is keyed by the normalized (trimmed,
\* lower-cased) email: for emails that differ only in case the limiter holds
\* one count and one lockout, so they are allowed or turned away together.
C35_NormalizedKey ==
  \A e1 \in LoginConcEmails, e2 \in LoginConcEmails, i \in RLIps :
    ToLowerCase(e1) = ToLowerCase(e2) =>
      /\ getAttemptCount(e1, i) = getAttemptCount(e2, i)
      /\ isLoginAllowedResult(e1, i).allowed
           = isLoginAllowedResult(e2, i).allowed

\* ---------------------------------------------------------------- C36
\* The window of a key's record has elapsed.
WindowElapsed(key) ==
  MapHas(loginAttempts, key)
    /\ now - loginAttempts[key].firstAttempt > windowMs

\* What recordFailedAttempt is to leave on record for a key.
C36_Recorded(key, r) ==
  /\ WindowElapsed(key) => r.count = 1 /\ r.firstAttempt = now
  /\ ~MapHas(loginAttempts, key) => r.count = 1 /\ r.firstAttempt = now
  /\ MapHas(loginAttempts, key) /\ ~WindowElapsed(key) =>
       /\ r.count = loginAttempts[key].count + 1
       /\ r.firstAttempt = loginAttempts[key].firstAttempt
       /\ r.count < maxAttempts =>
            r.lockedUntil = loginAttempts[key].lockedUntil
  /\ r.count >= maxAttempts => r.lockedUntil = now + lockoutDurationMs
  /\ r.count < maxAttempts /\ r.count = 1 => r.lockedUntil = NoLock

C36_ResultInv ==
  \A e \in RLEmails, i \in RLIps :
    C36_Recorded(getAttemptKey(e, i), recordFailedAttemptResult(e, i))

C36_RecordStep ==
  \A e \in RLEmails, i \in RLIps :
    recordFailedAttempt(e, i) =>
      /\ MapHas(loginAttempts', getAttemptKey(e, i))
      /\ C36_Recorded(getAttemptKey(e, i),
                      loginAttempts'[getAttemptKey(e, i)])
      /\ \A k \in DOMAIN loginAttempts \ {getAttemptKey(e, i)} :
           MapHas(loginAttempts', k) /\ loginAttempts'[k] = loginAttempts[k]

\* C36: recordFailedAttempt for a key whose window since the first recorded
\* attempt has elapsed resets the count to 1 and restarts the window at now;
\* otherwise it increments the count by exactly 1, and on reaching
\* maxAttempts within the window it sets the lockout deadline to
\* now + lockoutDuration.
C36_RecordFailedAttempt == []C36_ResultInv /\ [][C36_RecordStep]_vars

\* A failure has just been recorded for a key whose earlier failures lie
\* more than a window back: the record counts 1 from now, while another
\* key, whose window still runs, has reached maxAttempts and is locked.
C36_Witness ==
  \E e1 \in RLEmails, e2 \in RLEmails, i \in RLIps :
    LET k1 == getAttemptKey(e1, i)
        k2 == getAttemptKey(e2, i)
    IN /\ MapHas(loginAttempts, k1) /\ MapHas(attemptLog, k1)
       /\ attemptLog[k1].n >= 2 /\ attemptLog[k1].last = now
       /\ now - attemptLog[k1].first > windowMs
       /\ loginAttempts[k1].count = 1 /\ loginAttempts[k1].firstAttempt = now
       /\ MapHas(loginAttempts, k2)
       /\ loginAttempts[k2].count = maxAttempts
       /\ loginAttempts[k2].lockedUntil
            = loginAttempts[k2].firstAttempt + lockoutDurationMs

\* ---------------------------------------------------------------- C37
\* The rows a presented token can stand for: those whose token column holds
\* its hash or, for the fallback lookup, the token itself.
RowsOf(t) == {s \in sessions : s.token = hashToken(t) \/ s.token = t}

\* The session of the token is unknown, expired or revoked.
NotCurrentlyValid(t) ==
  \A s \in RowsOf(t) : s.is_revoked \/ s.expires_at <= now

\* C37: refreshSession and rotateSessionToken called with a token whose
\* session is unknown, expired or revoked return success:false, and neither
\* of the two UPDATE statements each of them runs changes any session row.
C37_FailsWithoutMutation ==
  \A t \in Presentable :
    NotCurrentlyValid(t) =>
      /\ ~refreshSessionResult(t).success
      /\ refreshSessionResult(t).error = "invalid_session"
      /\ RefreshWhere(hashToken(t)) = sessions
      /\ RefreshWhere(t) = sessions
      /\ ~rotateSessionTokenResult(t).success
      /\ rotateSessionTokenResult(t).error = "invalid_session"
      /\ rotateSessionTokenResult(t).token = NoToken
      /\ RotateWhere(hashToken(t), hashToken(nextTok)) = sessions
      /\ RotateWhere(t, hashToken(nextTok)) = sessions

\* The three kinds of token at once: one of a revoked session that has not
\* run out, one of an expired session that was never revoked, one that was
\* never issued.
C37_Witness ==
  /\ \E t \in Presentable, s \in sessions :
       s.token = hashToken(t) /\ s.is_revoked /\ s.expires_at > now
  /\ \E t \in Presentable, s \in sessions :
       s.token = hashToken(t) /\ ~s.is_revoked /\ s.expires_at <= now
  /\ \E t \in Presentable : RowsOf(t) = {}

\* ---------------------------------------------------------------- C38
\* A session that is revoked, or whose expiry the clock has reached, is in
\* the same condition after any step, keeps its token column, and no token
\* that stands for it validates.
C38_TerminalStep ==
  <<sessions, now>>' # <<sessions, now>> =>
    \A s \in sessions :
      s.is_revoked \/ s.expires_at <= now =>
        \A s2 \in sessions' :
          s2.id = s.id =>
            /\ s2.is_revoked \/ s2.expires_at <= now'
            /\ s.is_revoked => s2.is_revoked
            /\ s2.token = s.token /\ s2.expires_at = s.expires_at
            /\ \A t \in Presentable' :
                 hashToken(t) = s2.token \/ t = s2.token =>
                   ~validateSessionResult(t).valid'

\* C38: Revoked and Expired are terminal: once a session has been revoked,
\* or the clock has passed its expiry, no later sequence of validateSession,
\* refreshSession, rotateSessionToken, revokeSession or createSimpleSession
\* calls makes any token of that session validate again.
C38_TerminalStates == [][C38_TerminalStep]_vars

\* Both terminal states side by side after later calls: session 1 ran out
\* unrevoked, session 2 was opened afterwards and then revoked, and no token
\* validates.
C38_Witness ==
  /\ \E s \in sessions : s.id = 1 /\ ~s.is_revoked /\ s.expires_at <= now
  /\ \E s \in sessions :
       s.id = 2 /\ s.is_revoked /\ s.created_at >= expiresInMs
  /\ \A t \in Presentable : ~validateSessionResult(t).valid

\* ---------------------------------------------------------------- C39
\* C39: at every time, under any interleaving of registerUser,
\* resendVerificationEmail and verifyEmail calls for one user, that user has
\* at most one stored email-verification token, so that a resend leaves none
\* of the tokens issued before it.
C39_OneTokenPerUser ==
  \A u \in DOMAIN users :
    Cardinality({r \in verificationTokens : r.user_id = u}) <= 1

\* ---------------------------------------------------------------- C40
\* C40: a token handed out by createSession is usable: as long as the
\* session it was handed out for is neither expired nor revoked,
\* validateSession(accessToken) returns valid with the session's user.
C40_AccessTokenUsable ==
  \A t \in 1..(nextTok - 1), s \in sessions :
    /\ s.token = JsonStringify(hashToken(t), hashToken(t + 1))
    /\ ~s.is_revoked /\ s.expires_at > now
    => /\ validateSessionResult(t).valid
       /\ validateSessionResult(t).userId = s.user_id
====
